---- MODULE Spec2Model ----
(***************************************************************************)
(* Work-tracker backend: the permission matrix, the team / project         *)
(* membership records and the sprint lifecycle and metrics engine,         *)
(* modelled as state machines over the document collections the            *)
(* controllers read and write.  One action per request handler; the        *)
(* awaits of a handler run back to back (requests are executed one at a    *)
(* time).  A handler that answers with an error and writes nothing is a    *)
(* step that leaves the collections as they were.                          *)
(***************************************************************************)
EXTENDS Integers, Sequences, FiniteSets, TLC

\* ------------------------------------------------------------------ bounds
\* users, teams, projects and membership documents of the membership specification
MaxUsers == 2
MaxTeams == 2
MaxMemberProjects == 1
MaxMemberDocs == 5
\* projects and sprints of the lifecycle specification
MaxProjects == 2
MaxSprints == 3
\* calendar days after the first one
MaxDay == 1
\* projects, sprints and tasks of the sprint metrics specification
MaxMetricProjects == 1
MaxMetricSprints == 2
MaxTasks == 1
\* tasks around the planned sprint of the planned-sprint specification
MaxPlannedTasks == 2
\* task documents the collection holds at most; projects of the hierarchy specification
MaxTaskDocs == 3
MaxHierarchyProjects == 2
\* tasks of the tenant specification
MaxTenantTasks == 1
\* users of the scoping specification
MaxScopeUsers == 3
\* Notification documents, and the tasks the reminder jobs read
MaxNotifications == 4
MaxReminderTasks == 1
\* notification-stream requests
MaxConnections == 4
\* BandwidthReport documents, report periods, and day counts of a report body
MaxReports == 2
MaxMonth == 2
MaxReportDays == 1
\* startSprint requests under way at once
MaxStartCalls == 2
\* tasks of the project whose sprints are started concurrently
MaxRaceTasks == 1

\* ------------------------------------------------------- program constants
SprintStatuses == {"planning", "active", "completed", "cancelled"}
TaskStatuses == {"todo", "inprogress", "completed"}
TeamRoleEnum == {"admin", "Manager", "member", "viewer"}
ProjectRoleEnum == {"owner", "manager", "contributor", "viewer"}
MemberStatusEnum == {"active", "invited", "suspended"}

\* A numeric body field the request does not carry.
Absent == -1
\* A task with no sprint reference (backlog); an unset project.currentSprint.
NoSprint == 0
\* A task without storyPoints.
NoPoints == -1
\* An unset Date field.
NoDate == -1
\* Story point estimates the requests use.
StoryPointValues == {3, 5}

VARIABLES
    teams,          \* Team collection: id -> [owner, isActive]
    teamMembers,    \* TeamMember collection: id -> membership document
    projects,       \* Project collection: id -> [team, createdBy, currentSprint]
    projectMembers, \* ProjectMember collection: id -> membership document
    memberRes,      \* the response to the last membership request: [code, message]
    res,            \* the last response of a route's middleware, or of a handler
                    \* modelled behind its middleware: [code, message]
    sprints,        \* Sprint collection: id -> sprint document
    tasks,          \* Task collection: id -> task document
    nextId,         \* next fresh id per collection (ids are never reused)
    now,            \* the current calendar day
    permCall,       \* a call of a permission function: its arguments
    permResult,     \* what the call returned ("pending" before it ran)
    scopeCall,      \* a call of a scoping function: its arguments
    scopeResult,    \* [returned, ids]: whether the call returned, and the ids
    startCalls,     \* startSprint requests under way: id -> [sprint, pc, doc, code]
    reports,        \* BandwidthReport collection: id -> report document
    notifications,  \* Notification collection: a sequence of notification documents
    connections,    \* notification-stream requests: id -> "accepted", "open" or "closed"
    listeners,      \* connections whose sendEvent is registered on notificationEmitter
    timers,         \* connections whose keepAlive interval is running
    lastRun         \* the reminder job that ran last, and the collections it read

vars == <<teams, teamMembers, projects, projectMembers, memberRes, res, sprints, tasks,
          nextId, now, permCall, permResult, scopeCall, scopeResult,
          startCalls, reports, notifications, connections, listeners, timers, lastRun>>
memberVars == <<teams, teamMembers, projectMembers, memberRes>>
dbVars == <<memberVars, projects, sprints, tasks, nextId, now>>
permVars == <<permCall, permResult>>
scopeVars == <<scopeCall, scopeResult>>
streamVars == <<connections, listeners, timers>>
jobVars == <<notifications, lastRun>>
restVars == <<startCalls, reports, jobVars, streamVars>>

\* no startSprint request under way, no report, no notification, no stream, no
\* reminder job run yet
IdleRest ==
    /\ startCalls = << >>
    /\ reports = << >>
    /\ notifications = << >>
    /\ connections = << >>
    /\ listeners = {}
    /\ timers = {}
    /\ lastRun = [job |-> "none", teamMembers |-> << >>, reports |-> << >>, tasks |-> << >>]

\* ------------------------------------------------------------ collections
Put(coll, id, doc) == [x \in DOMAIN coll \cup {id} |-> IF x = id THEN doc ELSE coll[x]]
Remove(coll, ids) == [x \in DOMAIN coll \ ids |-> coll[x]]
\* Model.findOne: the first match in id (insertion) order, 0 when none
First(S) == IF S = {} THEN 0 ELSE CHOOSE x \in S : \A y \in S : x <= y

RECURSIVE SumOver(_, _)
SumOver(f, S) ==
    IF S = {} THEN 0
    ELSE LET x == CHOOSE y \in S : TRUE IN f[x] + SumOver(f, S \ {x})

\* ============================================================ PERMISSIONS
\* permissions.js TEAM_PERMISSIONS
TEAM_PERMISSIONS ==
    [ MANAGE_TEAM |-> {"admin"},
      INVITE_MEMBERS |-> {"admin", "Manager"},
      REMOVE_MEMBERS |-> {"admin"},
      CREATE_PROJECTS |-> {"admin", "Manager"},
      VIEW_ALL_PROJECTS |-> {"admin", "Manager"},
      DELETE_PROJECTS |-> {"admin"},
      VIEW_TEAM_REPORTS |-> {"admin", "Manager"},
      VIEW_REPORTS |-> {"admin", "Manager"},
      APPROVE_BANDWIDTH |-> {"admin", "Manager"},
      VIEW_ALL_ACTIVITIES |-> {"admin"},
      MANAGE_SETTINGS |-> {"admin"} ]

\* permissions.js PROJECT_PERMISSIONS
PROJECT_PERMISSIONS ==
    [ EDIT_PROJECT |-> {"owner", "manager"},
      DELETE_PROJECT |-> {"owner"},
      ARCHIVE_PROJECT |-> {"owner", "manager"},
      INVITE_MEMBERS |-> {"owner", "manager"},
      REMOVE_MEMBERS |-> {"owner", "manager"},
      ASSIGN_TASKS |-> {"owner", "manager", "contributor"},
      CREATE_SPRINT |-> {"owner", "manager"},
      START_SPRINT |-> {"owner", "manager"},
      COMPLETE_SPRINT |-> {"owner", "manager"},
      EDIT_SPRINT |-> {"owner", "manager"},
      CREATE_TASK |-> {"owner", "manager", "contributor"},
      EDIT_OWN_TASK |-> {"owner", "manager", "contributor"},
      EDIT_ANY_TASK |-> {"owner", "manager"},
      DELETE_TASK |-> {"owner", "manager"},
      VIEW_PROJECT |-> {"owner", "manager", "contributor", "viewer"},
      VIEW_SPRINT |-> {"owner", "manager", "contributor", "viewer"} ]

\* Property names every object literal inherits from Object.prototype: reading
\* one from a table yields a function (or the prototype object), never undefined.
ObjectPrototypeKeys == {"constructor", "toString", "valueOf", "hasOwnProperty", "__proto__"}

\* TABLE[permission] || []  : the roles array of an own key, the inherited
\* value of a prototype key, the empty array otherwise
LookupOrEmpty(table, permission) ==
    IF permission \in DOMAIN table THEN [isArray |-> TRUE, roles |-> table[permission]]
    ELSE IF permission \in ObjectPrototypeKeys THEN [isArray |-> FALSE, roles |-> {}]
    ELSE [isArray |-> TRUE, roles |-> {}]

\* allowedRoles.includes(role): a TypeError when allowedRoles has no includes
Includes(allowedRoles, role) ==
    IF ~allowedRoles.isArray THEN "TypeError"
    ELSE IF role \in allowedRoles.roles THEN "true" ELSE "false"

\* A membership argument is the role of the document, "none" for null.
NoMembership == "none"

\* permissions.js checkTeamPermission
checkTeamPermission(teamMembership, permission) ==
    IF teamMembership = NoMembership THEN "false"
    ELSE Includes(LookupOrEmpty(TEAM_PERMISSIONS, permission), teamMembership)

\* a checkProjectPermission that looks at the project membership first
checkProjectPermission_NoAdminOverride(teamMembership, projectMembership, permission) ==
    IF projectMembership = NoMembership THEN "false"
    ELSE Includes(LookupOrEmpty(PROJECT_PERMISSIONS, permission), projectMembership)

\* permissions.js checkProjectPermission
checkProjectPermission(teamMembership, projectMembership, permission) ==
    IF teamMembership # NoMembership /\ teamMembership = "admin" THEN "true"
    ELSE IF projectMembership = NoMembership THEN "false"
    ELSE Includes(LookupOrEmpty(PROJECT_PERMISSIONS, permission), projectMembership)

\* Action names of the calls: both tables' keys, the names the routes gate on
\* that no table lists, an arbitrary unknown name, and inherited property names.
ActionNames ==
    DOMAIN TEAM_PERMISSIONS \cup DOMAIN PROJECT_PERMISSIONS
    \cup {"MANAGE_SPRINTS", "DELETE_TASKS", "NO_SUCH_ACTION"} \cup ObjectPrototypeKeys

PermCalls ==
    [ fn : {"checkTeamPermission", "checkProjectPermission"},
      teamMembership : TeamRoleEnum \cup {NoMembership},
      projectMembership : ProjectRoleEnum \cup {NoMembership},
      permission : ActionNames ]

\* no permission call under way
IdlePerm == permCall = [fn |-> "none", teamMembership |-> NoMembership,
                        projectMembership |-> NoMembership, permission |-> "none"]
            /\ permResult = "pending"

CallCheckTeamPermission ==
    /\ permResult = "pending"
    /\ permCall.fn = "checkTeamPermission"
    /\ permResult' = checkTeamPermission(permCall.teamMembership, permCall.permission)
    /\ UNCHANGED <<permCall, dbVars, res, scopeVars, restVars>>

CallCheckProjectPermission ==
    /\ permResult = "pending"
    /\ permCall.fn = "checkProjectPermission"
    /\ permResult' = checkProjectPermission(permCall.teamMembership,
                                            permCall.projectMembership, permCall.permission)
    /\ UNCHANGED <<permCall, dbVars, res, scopeVars, restVars>>

\* the next call, with arguments of its own
NextCall ==
    /\ permResult # "pending"
    /\ permCall' \in PermCalls
    /\ permResult' = "pending"
    /\ UNCHANGED <<dbVars, res, scopeVars, restVars>>

\* ================================================================ SCOPING
\* A TeamMember document without reportingManager.
NoManager == 0

\* TeamMember.find({ team, status: "active" }): the users of the documents
ActiveMemberIds(teamId) ==
    {teamMembers[m].user : m \in {x \in DOMAIN teamMembers :
                                     /\ teamMembers[x].team = teamId
                                     /\ teamMembers[x].status = "active"}}

\* TeamMember.find({ team, status: "active", reportingManager: requester })
DirectReportIds(teamId, requester) ==
    {teamMembers[m].user : m \in {x \in DOMAIN teamMembers :
                                     /\ teamMembers[x].team = teamId
                                     /\ teamMembers[x].status = "active"
                                     /\ teamMembers[x].reportingManager = requester}}

\* adminController.js isAdminOrProjectManager
isAdminOrProjectManager(role) == role = "admin" \/ role = "project_manager"

\* adminController.js getScopedUserIds: the ids it returns
getScopedUserIds(teamId, requester, role) ==
    IF isAdminOrProjectManager(role) THEN ActiveMemberIds(teamId)
    ELSE {requester} \cup DirectReportIds(teamId, requester)

\* the reports controller's getScopedUserIds: the ids it returns
getScopedUserIds_Reports(teamId, requester, role) ==
    IF role = "admin" THEN ActiveMemberIds(teamId)
    ELSE IF role = "Manager" \/ role = "project_manager"
    THEN {requester} \cup DirectReportIds(teamId, requester)
    ELSE {requester}

\* no scoping call under way
IdleScope ==
    /\ scopeCall = [fn |-> "none", teamId |-> 0, requester |-> 0, role |-> "none"]
    /\ scopeResult = [returned |-> FALSE, ids |-> {}]

CallGetScopedUserIds ==
    /\ ~scopeResult.returned
    /\ scopeCall.fn = "getScopedUserIds"
    /\ scopeResult' = [returned |-> TRUE,
                       ids |-> getScopedUserIds(scopeCall.teamId, scopeCall.requester,
                                                scopeCall.role)]
    /\ UNCHANGED <<scopeCall, dbVars, res, permVars, restVars>>

CallGetScopedUserIds_Reports ==
    /\ ~scopeResult.returned
    /\ scopeCall.fn = "getScopedUserIds_Reports"
    /\ scopeResult' = [returned |-> TRUE,
                       ids |-> getScopedUserIds_Reports(scopeCall.teamId,
                                                        scopeCall.requester, scopeCall.role)]
    /\ UNCHANGED <<scopeCall, dbVars, res, permVars, restVars>>

\* ============================================================ MEMBERSHIPS
Users == 1..MaxUsers
TeamIds == 1..MaxTeams

\* TeamMember.js pre("save"): the flags of each role
TeamRoleFlags(role) ==
    CASE role = "admin" ->
           [canCreateProjects |-> TRUE, canManageTeam |-> TRUE,
            canViewReports |-> TRUE, canManageSprints |-> TRUE]
      [] role = "Manager" ->
           [canCreateProjects |-> TRUE, canManageTeam |-> FALSE,
            canViewReports |-> TRUE, canManageSprints |-> TRUE]
      [] OTHER ->
           [canCreateProjects |-> FALSE, canManageTeam |-> FALSE,
            canViewReports |-> FALSE, canManageSprints |-> FALSE]

\* TeamMember schema defaults of the permissions sub-document
TeamDefaultFlags ==
    [canCreateProjects |-> FALSE, canManageTeam |-> FALSE,
     canViewReports |-> FALSE, canManageSprints |-> FALSE]

\* a pre("save") hook that derives the flags only when the document is new
teamMemberPreSave_OnlyWhenNew(doc, roleModified, isNew) ==
    IF isNew /\ doc.role \in TeamRoleEnum
    THEN [doc EXCEPT !.permissions = TeamRoleFlags(doc.role)]
    ELSE doc

\* teamMemberSchema.pre("save"): flags follow the role when the role was modified
teamMemberPreSave(doc, roleModified, isNew) ==
    IF roleModified /\ doc.role \in TeamRoleEnum
    THEN [doc EXCEPT !.permissions = TeamRoleFlags(doc.role)]
    ELSE doc

\* ProjectMember.js pre("save"): the flags of each role
ProjectRoleFlags(role) ==
    CASE role \in {"owner", "manager"} ->
           [canEditProject |-> TRUE, canManageSprints |-> TRUE, canAssignTasks |-> TRUE,
            canDeleteTasks |-> TRUE, canInviteMembers |-> TRUE]
      [] role = "contributor" ->
           [canEditProject |-> FALSE, canManageSprints |-> FALSE, canAssignTasks |-> TRUE,
            canDeleteTasks |-> FALSE, canInviteMembers |-> FALSE]
      [] OTHER ->
           [canEditProject |-> FALSE, canManageSprints |-> FALSE, canAssignTasks |-> FALSE,
            canDeleteTasks |-> FALSE, canInviteMembers |-> FALSE]

\* ProjectMember schema defaults of the permissions sub-document
ProjectDefaultFlags ==
    [canEditProject |-> FALSE, canManageSprints |-> FALSE, canAssignTasks |-> FALSE,
     canDeleteTasks |-> FALSE, canInviteMembers |-> FALSE]

\* projectMemberSchema.pre("save")
projectMemberPreSave(doc, roleModified) ==
    IF roleModified /\ doc.role \in ProjectRoleEnum
    THEN [doc EXCEPT !.permissions = ProjectRoleFlags(doc.role)]
    ELSE doc

\* document.save() of a TeamMember: schema validation (the role enum), then the
\* pre("save") hook; `stored` is the role in the database, "" for a new document
SaveTeamMember(doc, stored) ==
    IF doc.role \notin TeamRoleEnum \/ doc.status \notin MemberStatusEnum
    THEN [ok |-> FALSE, doc |-> doc]
    ELSE [ok |-> TRUE, doc |-> teamMemberPreSave(doc, doc.role # stored, stored = "")]

\* document.save() of a ProjectMember
SaveProjectMember(doc, stored) ==
    IF doc.role \notin ProjectRoleEnum
    THEN [ok |-> FALSE, doc |-> doc]
    ELSE [ok |-> TRUE, doc |-> projectMemberPreSave(doc, doc.role # stored)]

\* TeamMember.findOne({ team, user }), 0 when there is none
FindTeamMember(t, u) ==
    First({x \in DOMAIN teamMembers : teamMembers[x].team = t /\ teamMembers[x].user = u})

\* TeamMember.findOne({ team, user, status: "active" })
FindActiveTeamMember(t, u) ==
    First({x \in DOMAIN teamMembers :
              teamMembers[x].team = t /\ teamMembers[x].user = u
              /\ teamMembers[x].status = "active"})

\* ProjectMember.findOne({ project, user })
FindProjectMember(p, u) ==
    First({x \in DOMAIN projectMembers :
              projectMembers[x].project = p /\ projectMembers[x].user = u})

\* the id a created membership document gets: nothing refers to a membership
\* by id, so the lowest free slot stands for a fresh ObjectId (0: no slot left)
FreshTeamMemberId == First((1..MaxMemberDocs) \ DOMAIN teamMembers)
FreshProjectMemberId == First((1..MaxMemberDocs) \ DOMAIN projectMembers)

\* TeamMember.create({ team, user, role, status: "active" }) under the unique
\* index on (team, user): the collection after it, ok = FALSE when it throws
TeamMemberCreate(t, u, role) ==
    LET r == SaveTeamMember([team |-> t, user |-> u, role |-> role, status |-> "active",
                             permissions |-> TeamDefaultFlags], "")
    IN IF ~r.ok \/ FindTeamMember(t, u) # 0 THEN [ok |-> FALSE, coll |-> teamMembers]
       ELSE [ok |-> TRUE, coll |-> Put(teamMembers, FreshTeamMemberId, r.doc)]

\* ProjectMember.create({ project, user, role }) under the unique index on
\* (project, user)
ProjectMemberCreate(coll, p, u, role) ==
    LET r == SaveProjectMember([project |-> p, user |-> u, role |-> role,
                                permissions |-> ProjectDefaultFlags], "")
        dup == \E x \in DOMAIN coll : coll[x].project = p /\ coll[x].user = u
    IN IF ~r.ok \/ dup THEN [ok |-> FALSE, coll |-> coll]
       ELSE [ok |-> TRUE, coll |-> Put(coll, FreshProjectMemberId, r.doc)]

\* res.status(code).json({ message })
Res(code, message) == [code |-> code, message |-> message]

\* role || fallback, for a body role of "absent"
RoleOr(role, fallback) == IF role = "absent" THEN fallback ELSE role

\* teamController.createTeam: the team and its owner's admin membership
createTeam(actor) ==
    /\ nextId.team <= MaxTeams
    /\ FreshTeamMemberId # 0
    /\ LET t == nextId.team
           c == TeamMemberCreate(t, actor, "admin")
       IN /\ teams' = Put(teams, t, [owner |-> actor, isActive |-> TRUE])
          /\ teamMembers' = c.coll
          /\ nextId' = [nextId EXCEPT !.team = t + 1]
          /\ memberRes' = IF c.ok THEN Res(201, "Team created successfully")
                          ELSE Res(500, "Error creating team")
    /\ UNCHANGED <<projects, projectMembers, sprints, tasks, now, permVars, res, scopeVars, restVars>>

\* an addTeamMember that looks only for an active membership
addTeamMember_ActiveLookup(t, u, role) ==
    /\ t \in DOMAIN teams
    /\ FreshTeamMemberId # 0
    /\ IF FindActiveTeamMember(t, u) # 0
       THEN memberRes' = Res(400, "User is already a member of this team") /\ UNCHANGED teamMembers
       ELSE LET c == TeamMemberCreate(t, u, RoleOr(role, "member"))
            IN teamMembers' = c.coll /\ memberRes' = IF c.ok THEN Res(201, "Member added successfully")
                                                     ELSE Res(500, "Error adding team member")
    /\ UNCHANGED <<teams, projects, projectMembers, sprints, tasks, nextId, now, permVars, res, scopeVars, restVars>>

\* teamController.addTeamMember
addTeamMember(t, u, role) ==
    /\ t \in DOMAIN teams
    /\ FreshTeamMemberId # 0
    /\ LET existingMember == FindTeamMember(t, u)
       IN IF existingMember # 0
          THEN IF teamMembers[existingMember].status = "active"
               THEN memberRes' = Res(400, "User is already a member of this team")
                    /\ UNCHANGED teamMembers
               ELSE \* reactivate the membership
                    LET r == SaveTeamMember(
                                 [teamMembers[existingMember] EXCEPT
                                     !.status = "active", !.role = RoleOr(role, "member")],
                                 teamMembers[existingMember].role)
                    IN /\ teamMembers' = IF r.ok
                                         THEN [teamMembers EXCEPT ![existingMember] = r.doc]
                                         ELSE teamMembers
                       /\ memberRes' = IF r.ok THEN Res(200, "User added to team successfully")
                                       ELSE Res(500, "Error adding team member")
          ELSE LET c == TeamMemberCreate(t, u, RoleOr(role, "member"))
               IN teamMembers' = c.coll /\ memberRes' = IF c.ok THEN Res(201, "Member added successfully")
                                                        ELSE Res(500, "Error adding team member")
    /\ UNCHANGED <<teams, projects, projectMembers, sprints, tasks, nextId, now, permVars, res, scopeVars, restVars>>

\* teamController.updateTeamMember
updateTeamMember(t, actor, u, role) ==
    /\ t \in DOMAIN teams
    /\ LET member == FindTeamMember(t, u)
       IN IF member = 0 THEN memberRes' = Res(404, "Team member not found") /\ UNCHANGED teamMembers
          ELSE IF u = teams[t].owner /\ actor # teams[t].owner
          THEN memberRes' = Res(403, "Cannot modify team owner membership") /\ UNCHANGED teamMembers
          ELSE LET r == SaveTeamMember(
                            [teamMembers[member] EXCEPT !.role = RoleOr(role, @)],
                            teamMembers[member].role)
               IN /\ teamMembers' = IF r.ok THEN [teamMembers EXCEPT ![member] = r.doc]
                                    ELSE teamMembers
                  /\ memberRes' = IF r.ok THEN Res(200, "Member updated successfully")
                                  ELSE Res(500, "Error updating team member")
    /\ UNCHANGED <<teams, projects, projectMembers, sprints, tasks, nextId, now, permVars, res, scopeVars, restVars>>

\* adminController.updateMemberRole
updateMemberRole(t, u, role) ==
    /\ t \in DOMAIN teams
    /\ LET member == FindTeamMember(t, u)
       IN IF role \notin {"admin", "project_manager", "Manager", "member", "viewer"}
          THEN memberRes' = Res(400, "Invalid role") /\ UNCHANGED teamMembers
          ELSE IF member = 0 THEN memberRes' = Res(404, "Team member not found")
                                  /\ UNCHANGED teamMembers
          ELSE LET r == SaveTeamMember([teamMembers[member] EXCEPT !.role = role],
                                       teamMembers[member].role)
               IN /\ teamMembers' = IF r.ok THEN [teamMembers EXCEPT ![member] = r.doc]
                                    ELSE teamMembers
                  /\ memberRes' = IF r.ok THEN Res(200, "Member role updated successfully")
                                  ELSE Res(500, "Error updating member role")
    /\ UNCHANGED <<teams, projects, projectMembers, sprints, tasks, nextId, now, permVars, res, scopeVars, restVars>>

\* teamController.removeTeamMember: the user's project memberships in the
\* team's projects go too
removeTeamMember(t, u) ==
    /\ t \in DOMAIN teams
    /\ LET member == FindTeamMember(t, u)
       IN IF member = 0 THEN memberRes' = Res(404, "Team member not found")
                             /\ UNCHANGED <<teamMembers, projectMembers>>
          ELSE IF u = teams[t].owner
          THEN memberRes' = Res(403, "Cannot remove team owner")
               /\ UNCHANGED <<teamMembers, projectMembers>>
          ELSE /\ projectMembers' =
                     Remove(projectMembers,
                            {x \in DOMAIN projectMembers :
                                /\ projectMembers[x].user = u
                                /\ projectMembers[x].project \in DOMAIN projects
                                /\ projects[projectMembers[x].project].team = t})
               /\ teamMembers' = Remove(teamMembers, {member})
               /\ memberRes' = Res(200, "Member removed permanently from team")
    /\ UNCHANGED <<teams, projects, sprints, tasks, nextId, now, permVars, res, scopeVars, restVars>>

\* adminController.removeMember: the team membership alone
removeMember(t, u) ==
    /\ t \in DOMAIN teams
    /\ LET member == FindTeamMember(t, u)
       IN IF member = 0 THEN memberRes' = Res(404, "Team member not found") /\ UNCHANGED teamMembers
          ELSE IF u = teams[t].owner THEN memberRes' = Res(403, "Cannot remove team owner")
                                          /\ UNCHANGED teamMembers
          ELSE teamMembers' = Remove(teamMembers, {member}) /\ memberRes' = Res(200, "Member removed from team")
    /\ UNCHANGED <<teams, projects, projectMembers, sprints, tasks, nextId, now, permVars, res, scopeVars, restVars>>

\* projectMemberController.addProjectMember (teamId is the route's team)
addProjectMember(teamId, p, u, role) ==
    /\ teamId \in DOMAIN teams
    /\ FreshProjectMemberId # 0
    /\ IF p \notin DOMAIN projects THEN memberRes' = Res(404, "Project not found")
                                        /\ UNCHANGED projectMembers
       ELSE IF projects[p].team # teamId THEN memberRes' = Res(403, "Project does not belong to this team")
                                              /\ UNCHANGED projectMembers
       ELSE IF FindActiveTeamMember(teamId, u) = 0
       THEN memberRes' = Res(400, "User is not an active member of this team")
            /\ UNCHANGED projectMembers
       ELSE IF FindProjectMember(p, u) # 0
       THEN memberRes' = Res(400, "User is already a project member")
            /\ UNCHANGED projectMembers
       ELSE LET c == ProjectMemberCreate(projectMembers, p, u, RoleOr(role, "contributor"))
            IN projectMembers' = c.coll /\ memberRes' = IF c.ok THEN Res(201, "Member added successfully")
                                                        ELSE Res(500, "Error adding project member")
    /\ UNCHANGED <<teams, teamMembers, projects, sprints, tasks, nextId, now, permVars, res, scopeVars, restVars>>

\* projectMemberController.updateProjectMember
updateProjectMember(p, u, role) ==
    /\ LET member == FindProjectMember(p, u)
       IN IF member = 0 THEN memberRes' = Res(404, "Project member not found")
                             /\ UNCHANGED projectMembers
          ELSE LET r == SaveProjectMember(
                            [projectMembers[member] EXCEPT !.role = RoleOr(role, @)],
                            projectMembers[member].role)
               IN /\ projectMembers' = IF r.ok THEN [projectMembers EXCEPT ![member] = r.doc]
                                       ELSE projectMembers
                  /\ memberRes' = IF r.ok THEN Res(200, "Member updated successfully")
                                  ELSE Res(500, "Error updating project member")
    /\ UNCHANGED <<teams, teamMembers, projects, sprints, tasks, nextId, now, permVars, res, scopeVars, restVars>>

\* projectMemberController.removeProjectMember: never the owner
removeProjectMember(p, u) ==
    /\ LET member == FindProjectMember(p, u)
       IN IF member = 0 THEN memberRes' = Res(404, "Project member not found")
                             /\ UNCHANGED projectMembers
          ELSE IF projectMembers[member].role = "owner"
          THEN memberRes' = Res(403, "Cannot remove project owner") /\ UNCHANGED projectMembers
          ELSE projectMembers' = Remove(projectMembers, {member}) /\ memberRes' = Res(200, "Member removed successfully")
    /\ UNCHANGED <<teams, teamMembers, projects, sprints, tasks, nextId, now, permVars, res, scopeVars, restVars>>

\* ============================================================= MIDDLEWARE
\* next(): the middleware hands the request on
PassedOn == Res(0, "next")

\* a setTeamContext that does not look at the team's isActive flag
setTeamContext_IgnoresIsActive(teamId, actor) ==
    IF teamId \notin DOMAIN teams THEN Res(404, "Team not found")
    ELSE IF FindActiveTeamMember(teamId, actor) = 0
    THEN Res(403, "You are not a member of this team")
    ELSE PassedOn

\* teamContext.setTeamContext: the response it sends, or PassedOn
setTeamContext(teamId, actor) ==
    IF teamId \notin DOMAIN teams THEN Res(404, "Team not found")
    ELSE IF ~teams[teamId].isActive THEN Res(403, "This team is no longer active")
    ELSE IF FindActiveTeamMember(teamId, actor) = 0
    THEN Res(403, "You are not a member of this team")
    ELSE PassedOn

\* req.teamMembership after setTeamContext passed: the role of the membership
TeamMembershipOf(teamId, actor) == teamMembers[FindActiveTeamMember(teamId, actor)].role

\* ProjectMember.findOne({ project, user }) as checkProjectPermission gets it
ProjectMembershipOf(projectId, actor) ==
    IF FindProjectMember(projectId, actor) = 0 THEN NoMembership
    ELSE projectMembers[FindProjectMember(projectId, actor)].role

\* permissions.requireProjectPermission(permission) behind setTeamContext: the
\* response it sends, or PassedOn (no project has a teamLead, whom the
\* INVITE_MEMBERS and REMOVE_MEMBERS branch would let through)
requireProjectPermission(permission, teamId, projectId, actor) ==
    LET hasPermission == checkProjectPermission(TeamMembershipOf(teamId, actor),
                                                ProjectMembershipOf(projectId, actor),
                                                permission)
    IN IF hasPermission = "TypeError" THEN Res(500, "Error checking permissions")
       ELSE IF hasPermission = "false" THEN Res(403, "Insufficient permissions")
       ELSE PassedOn

\* ================================================================ SPRINTS
\* A Date is 2*day + (0 at midnight, 1 later in the day).
NewDate == 2 * now + 1
\* Date.setHours(0, 0, 0, 0)
setHoursMidnight(d) == d - (d % 2)

\* Task.find({ sprint: id })
TasksOfSprint(tsk, s) == {t \in DOMAIN tsk : tsk[t].sprint = s}

\* task.storyPoints || 0
PointsOrZero(tsk) ==
    [t \in DOMAIN tsk |-> IF tsk[t].storyPoints = NoPoints THEN 0 ELSE tsk[t].storyPoints]

\* Sprint.create({ project, team, status }): the schema defaults of the rest
NewSprint(p, team, st) ==
    [ project |-> p,
      team |-> team,
      status |-> st,
      metrics |-> [ totalStoryPoints |-> 0, completedStoryPoints |-> 0,
                    totalTasks |-> 0, completedTasks |-> 0, velocity |-> 0,
                    burndownData |-> << >> ],
      actualStartDate |-> NoDate,
      actualEndDate |-> NoDate ]

\* an updateMetrics that adds what it counts to the stored totals
updateMetrics_Accumulating(sp, s, tsk) ==
    LET mine == TasksOfSprint(tsk, s)
        done == {t \in mine : tsk[t].status = "completed"}
    IN [sp EXCEPT !.metrics.totalTasks = @ + Cardinality(mine),
                  !.metrics.completedTasks = @ + Cardinality(done),
                  !.metrics.totalStoryPoints = @ + SumOver(PointsOrZero(tsk), mine),
                  !.metrics.completedStoryPoints = @ + SumOver(PointsOrZero(tsk), done)]

\* sprintSchema.methods.updateMetrics: the document after its save()
updateMetrics(sp, s, tsk) ==
    LET mine == TasksOfSprint(tsk, s)
        done == {t \in mine : tsk[t].status = "completed"}
    IN [sp EXCEPT !.metrics.totalTasks = Cardinality(mine),
                  !.metrics.completedTasks = Cardinality(done),
                  !.metrics.totalStoryPoints = SumOver(PointsOrZero(tsk), mine),
                  !.metrics.completedStoryPoints = SumOver(PointsOrZero(tsk), done)]

\* a start that records the completed points in its first burndown point
start_CompletedInFirstPoint(sp) ==
    IF sp.status # "planning" THEN [ok |-> FALSE, doc |-> sp]
    ELSE [ok |-> TRUE,
          doc |-> [sp EXCEPT !.status = "active",
                             !.actualStartDate = NewDate,
                             !.metrics.burndownData =
                                 << [date |-> NewDate,
                                     remainingPoints |-> sp.metrics.totalStoryPoints,
                                     completedPoints |-> sp.metrics.completedStoryPoints] >>]]

\* sprintSchema.methods.start: throws unless planning
start(sp) ==
    IF sp.status # "planning" THEN [ok |-> FALSE, doc |-> sp]
    ELSE [ok |-> TRUE,
          doc |-> [sp EXCEPT !.status = "active",
                             !.actualStartDate = NewDate,
                             !.metrics.burndownData =
                                 << [date |-> NewDate,
                                     remainingPoints |-> sp.metrics.totalStoryPoints,
                                     completedPoints |-> 0] >>]]

\* a complete that takes the velocity from the committed points
complete_VelocityFromTotal(sp) ==
    IF sp.status # "active" THEN [ok |-> FALSE, doc |-> sp]
    ELSE [ok |-> TRUE,
          doc |-> [sp EXCEPT !.status = "completed",
                             !.actualEndDate = NewDate,
                             !.metrics.velocity = sp.metrics.totalStoryPoints,
                             !.metrics.burndownData =
                                 Append(sp.metrics.burndownData,
                                        [date |-> NewDate,
                                         remainingPoints |-> sp.metrics.totalStoryPoints
                                                             - sp.metrics.completedStoryPoints,
                                         completedPoints |-> sp.metrics.completedStoryPoints])]]

\* sprintSchema.methods.complete: throws unless active
complete(sp) ==
    IF sp.status # "active" THEN [ok |-> FALSE, doc |-> sp]
    ELSE [ok |-> TRUE,
          doc |-> [sp EXCEPT !.status = "completed",
                             !.actualEndDate = NewDate,
                             !.metrics.velocity = sp.metrics.completedStoryPoints,
                             !.metrics.burndownData =
                                 Append(sp.metrics.burndownData,
                                        [date |-> NewDate,
                                         remainingPoints |-> sp.metrics.totalStoryPoints
                                                             - sp.metrics.completedStoryPoints,
                                         completedPoints |-> sp.metrics.completedStoryPoints])]]

\* sprintSchema.methods.cancel: throws when completed
cancel(sp) ==
    IF sp.status = "completed" THEN [ok |-> FALSE, doc |-> sp]
    ELSE [ok |-> TRUE, doc |-> [sp EXCEPT !.status = "cancelled"]]

\* sprintSchema.methods.addBurndownDataPoint
addBurndownDataPoint(sp) ==
    LET remainingPoints == sp.metrics.totalStoryPoints - sp.metrics.completedStoryPoints
        today == setHoursMidnight(NewDate)
        bd == sp.metrics.burndownData
        hits == {i \in 1..Len(bd) : setHoursMidnight(bd[i].date) = today}
    IN IF hits # {}
       THEN LET i == First(hits)
            IN [sp EXCEPT !.metrics.burndownData[i].remainingPoints = remainingPoints,
                          !.metrics.burndownData[i].completedPoints =
                              sp.metrics.completedStoryPoints]
       ELSE [sp EXCEPT !.metrics.burndownData =
                Append(bd, [date |-> today,
                            remainingPoints |-> remainingPoints,
                            completedPoints |-> sp.metrics.completedStoryPoints])]

\* Sprint.findOne({ project, status: "active" }) finds a document
HasActiveSprint(p) ==
    \E x \in DOMAIN sprints : sprints[x].project = p /\ sprints[x].status = "active"

\* Sprint ids a request can name: those handed out so far (deleted ones included)
KnownSprints == 1..(nextId.sprint - 1)

\* --------------------------------------------------- project / sprint handlers
\* projectController.createProject behind setTeamContext: the project, its first
\* sprint (created active), the project's currentSprint and the creator's owner
\* membership
createProject(teamId, actor) ==
    /\ teamId \in DOMAIN teams
    /\ nextId.project <= MaxProjects
    /\ nextId.sprint <= MaxSprints
    /\ FreshProjectMemberId # 0
    /\ LET membership == FindActiveTeamMember(teamId, actor)
           isAdminOrPm == membership # 0 /\ teamMembers[membership].role \in {"admin", "Manager"}
           p == nextId.project
           s == nextId.sprint
       IN IF ~isAdminOrPm
          THEN UNCHANGED <<projects, sprints, projectMembers, nextId>>
          ELSE /\ sprints' = Put(sprints, s, NewSprint(p, teamId, "active"))
               /\ projects' = Put(projects, p, [team |-> teamId, createdBy |-> actor,
                                                currentSprint |-> s])
               /\ projectMembers' = ProjectMemberCreate(projectMembers, p, actor, "owner").coll
               /\ nextId' = [nextId EXCEPT !.project = p + 1, !.sprint = s + 1]
    /\ UNCHANGED <<teams, teamMembers, memberRes, tasks, now, permVars, res, scopeVars, restVars>>

\* DELETE /api/teams/:teamId/projects/:id: setTeamContext,
\* requireProjectPermission("DELETE_PROJECT"), then projectController.deleteProject,
\* which lets the project's creator and team admins through and deletes the
\* project with its members, tasks and sprints
deleteProject(teamId, projectId, actor) ==
    /\ LET ctx == setTeamContext(teamId, actor)
           perm == requireProjectPermission("DELETE_PROJECT", teamId, projectId, actor)
       IN IF ctx # PassedOn
          THEN res' = ctx /\ UNCHANGED <<projects, projectMembers, sprints, tasks>>
          ELSE IF perm # PassedOn
          THEN res' = perm /\ UNCHANGED <<projects, projectMembers, sprints, tasks>>
          ELSE IF projectId \notin DOMAIN projects
          THEN res' = Res(404, "Project not found")
               /\ UNCHANGED <<projects, projectMembers, sprints, tasks>>
          ELSE LET isCreator == projects[projectId].createdBy = actor
                   isAdmin == TeamMembershipOf(teamId, actor) = "admin"
               IN IF ~isCreator /\ ~isAdmin
                  THEN res' = Res(403, "Only the project creator or admin can delete this project")
                       /\ UNCHANGED <<projects, projectMembers, sprints, tasks>>
                  ELSE /\ projectMembers' =
                             Remove(projectMembers,
                                    {x \in DOMAIN projectMembers :
                                        projectMembers[x].project = projectId})
                       /\ tasks' = Remove(tasks, {x \in DOMAIN tasks :
                                                    tasks[x].project = projectId})
                       /\ sprints' = Remove(sprints, {x \in DOMAIN sprints :
                                                        sprints[x].project = projectId})
                       /\ projects' = Remove(projects, {projectId})
                       /\ res' = Res(200, "Project and all associated data deleted permanently")
    /\ UNCHANGED <<teams, teamMembers, memberRes, nextId, now, permVars, scopeVars, restVars>>

\* sprintController.createSprint: Sprint.create({...req.body, project, team});
\* the schema validates the status enum
createSprint(p, bodyStatus) ==
    /\ p \in DOMAIN projects
    /\ nextId.sprint <= MaxSprints
    /\ LET s == nextId.sprint
           st == IF bodyStatus = "absent" THEN "planning" ELSE bodyStatus
       IN IF st \notin SprintStatuses
          THEN UNCHANGED <<sprints, nextId>>
          ELSE /\ sprints' = Put(sprints, s, NewSprint(p, projects[p].team, st))
               /\ nextId' = [nextId EXCEPT !.sprint = s + 1]
    /\ UNCHANGED <<memberVars, projects, tasks, now, permVars, res, scopeVars, restVars>>

\* sprintController.updateSprint: findByIdAndUpdate(sprintId, req.body,
\* { runValidators: true }) unless the sprint is completed
updateSprint(s, bodyStatus) ==
    /\ s \in DOMAIN sprints
    /\ sprints' = IF sprints[s].status = "completed" \/ bodyStatus = "absent"
                     \/ bodyStatus \notin SprintStatuses
                  THEN sprints
                  ELSE [sprints EXCEPT ![s].status = bodyStatus]
    /\ UNCHANGED <<memberVars, projects, tasks, nextId, now, permVars, res, scopeVars, restVars>>

\* a deleteSprint that protects completed sprints only
deleteSprint_OnlyCompletedProtected(s) ==
    /\ s \in DOMAIN sprints
    /\ IF sprints[s].status = "completed"
       THEN UNCHANGED <<sprints, tasks>>
       ELSE /\ tasks' = [t \in DOMAIN tasks |->
                            IF tasks[t].sprint = s THEN [tasks[t] EXCEPT !.sprint = NoSprint]
                            ELSE tasks[t]]
            /\ sprints' = Remove(sprints, {s})
    /\ UNCHANGED <<memberVars, projects, nextId, now, permVars, res, scopeVars, restVars>>

\* sprintController.deleteSprint: never an active or completed sprint; the
\* sprint's tasks go to the backlog
deleteSprint(s) ==
    /\ s \in DOMAIN sprints
    /\ IF sprints[s].status \in {"active", "completed"}
       THEN UNCHANGED <<sprints, tasks>>
       ELSE /\ tasks' = [t \in DOMAIN tasks |->
                            IF tasks[t].sprint = s THEN [tasks[t] EXCEPT !.sprint = NoSprint]
                            ELSE tasks[t]]
            /\ sprints' = Remove(sprints, {s})
    /\ UNCHANGED <<memberVars, projects, nextId, now, permVars, res, scopeVars, restVars>>

\* sprintController.startSprint: the active-sprint check, updateMetrics() (which
\* saves), start() (which throws or saves), then project.currentSprint
startSprint(s) ==
    /\ s \in DOMAIN sprints
    /\ IF HasActiveSprint(sprints[s].project)
       THEN UNCHANGED <<sprints, projects>>
       ELSE LET measured == updateMetrics(sprints[s], s, tasks)
                r == start(measured)
            IN IF ~r.ok
               THEN /\ sprints' = [sprints EXCEPT ![s] = measured]
                    /\ UNCHANGED projects
               ELSE /\ sprints' = [sprints EXCEPT ![s] = r.doc]
                    /\ projects' = [projects EXCEPT ![sprints[s].project].currentSprint = s]
    /\ UNCHANGED <<memberVars, tasks, nextId, now, permVars, res, scopeVars, restVars>>

\* sprintController.completeSprint: updateMetrics() (which saves), complete()
\* (which throws or saves), the project's currentSprint unset, then the
\* incomplete tasks moved; moveIncompleteTo is absent (NoSprint) or a sprint id
completeSprint(s, moveIncompleteTo) ==
    /\ s \in DOMAIN sprints
    /\ LET measured == updateMetrics(sprints[s], s, tasks)
           r == complete(measured)
       IN IF ~r.ok
          THEN /\ sprints' = [sprints EXCEPT ![s] = measured]
               /\ UNCHANGED <<projects, tasks>>
          ELSE /\ sprints' = [sprints EXCEPT ![s] = r.doc]
               /\ projects' = [projects EXCEPT ![sprints[s].project].currentSprint = NoSprint]
               /\ tasks' = IF moveIncompleteTo = NoSprint THEN tasks
                           ELSE [t \in DOMAIN tasks |->
                                   IF tasks[t].sprint = s /\ tasks[t].status # "completed"
                                   THEN [tasks[t] EXCEPT !.sprint = moveIncompleteTo]
                                   ELSE tasks[t]]
    /\ UNCHANGED <<memberVars, nextId, now, permVars, res, scopeVars, restVars>>

\* a cancelSprint that sends only the unfinished tasks back to the backlog
cancelSprint_KeepsCompletedTasks(s) ==
    /\ s \in DOMAIN sprints
    /\ LET r == cancel(sprints[s])
           p == sprints[s].project
       IN IF ~r.ok
          THEN UNCHANGED <<sprints, projects, tasks>>
          ELSE /\ sprints' = [sprints EXCEPT ![s] = r.doc]
               /\ projects' = IF projects[p].currentSprint = s
                              THEN [projects EXCEPT ![p].currentSprint = NoSprint]
                              ELSE projects
               /\ tasks' = [t \in DOMAIN tasks |->
                              IF tasks[t].sprint = s /\ tasks[t].status # "completed"
                              THEN [tasks[t] EXCEPT !.sprint = NoSprint]
                              ELSE tasks[t]]
    /\ UNCHANGED <<memberVars, nextId, now, permVars, res, scopeVars, restVars>>

\* sprintController.cancelSprint
cancelSprint(s) ==
    /\ s \in DOMAIN sprints
    /\ LET r == cancel(sprints[s])
           p == sprints[s].project
       IN IF ~r.ok
          THEN UNCHANGED <<sprints, projects, tasks>>
          ELSE /\ sprints' = [sprints EXCEPT ![s] = r.doc]
               /\ projects' = IF projects[p].currentSprint = s
                              THEN [projects EXCEPT ![p].currentSprint = NoSprint]
                              ELSE projects
               /\ tasks' = [t \in DOMAIN tasks |->
                              IF tasks[t].sprint = s THEN [tasks[t] EXCEPT !.sprint = NoSprint]
                              ELSE tasks[t]]
    /\ UNCHANGED <<memberVars, nextId, now, permVars, res, scopeVars, restVars>>

\* sprintController.getBurndownData: an active sprint is measured and gets
\* today's burndown point
getBurndownData(s) ==
    /\ s \in DOMAIN sprints
    /\ sprints' = IF sprints[s].status = "active"
                  THEN [sprints EXCEPT
                           ![s] = addBurndownDataPoint(updateMetrics(sprints[s], s, tasks))]
                  ELSE sprints
    /\ UNCHANGED <<memberVars, projects, tasks, nextId, now, permVars, res, scopeVars, restVars>>

\* the wall clock passes midnight
Tick ==
    /\ now < MaxDay
    /\ now' = now + 1
    /\ UNCHANGED <<memberVars, projects, sprints, tasks, nextId, permVars, res, scopeVars, restVars>>

\* ------------------------------------------------------------ task handlers
\* taskSchema validation of the status enum
ValidTaskStatus(st) == st \in TaskStatuses

\* projectController.js WORK_ITEM_RANK
WORK_ITEM_RANK ==
    [epic |-> 0, feature |-> 1, story |-> 2, task |-> 3, bug |-> 3, subtask |-> 4]
\* WORK_ITEM_RANK[type] ?? 99
RankOr99(type) == IF type \in DOMAIN WORK_ITEM_RANK THEN WORK_ITEM_RANK[type] ELSE 99
\* projectController.js PARENT_REQUIRED_TYPES
PARENT_REQUIRED_TYPES == {"subtask"}
\* A task without parentTask; a body whose parentTask is null.
NoParent == 0

\* The workItemType a task document carries: the request's, "task" without one.
StoredWorkItemType(bodyType, fallback) == IF bodyType = "absent" THEN fallback ELSE bodyType

\* projectController.validateParentRelationship: "ok", or the message it throws
validateParentRelationship(tsk, projectId, taskId, parentTaskId, childType) ==
    IF parentTaskId = NoParent THEN "ok"
    ELSE IF parentTaskId \notin DOMAIN tsk \/ tsk[parentTaskId].project # projectId
    THEN "Parent task not found in this project"
    ELSE IF taskId # NoParent /\ parentTaskId = taskId
    THEN "A task cannot be its own parent"
    ELSE IF RankOr99(tsk[parentTaskId].workItemType) >= RankOr99(childType)
    THEN "Parent item must be a higher-level work item"
    ELSE "ok"

\* taskSchema.pre("save"): completedAt follows a modified status
taskPreSave(doc, statusModified) ==
    IF ~statusModified THEN doc
    ELSE IF doc.status = "completed" /\ doc.completedAt = NoDate
    THEN [doc EXCEPT !.completedAt = NewDate]
    ELSE IF doc.status # "completed" THEN [doc EXCEPT !.completedAt = NoDate]
    ELSE doc

\* projectController.createTask: the parent checks, then
\* Task.create({...req.body, status, project}); the body may name a sprint; no
\* sprint is measured
createTask(p, bodySprint, bodyStatus, bodyPoints, bodyType, bodyParent) ==
    /\ p \in DOMAIN projects
    /\ nextId.task <= MaxTaskDocs
    /\ LET t == nextId.task
           defaultStatus == IF bodyStatus = "absent" THEN "todo" ELSE bodyStatus
           childType == StoredWorkItemType(bodyType, "task")
           parent == IF bodyParent = Absent THEN NoParent ELSE bodyParent
       IN IF \/ childType \in PARENT_REQUIRED_TYPES /\ parent = NoParent
             \/ validateParentRelationship(tasks, p, NoParent, parent, childType) # "ok"
             \/ ~ValidTaskStatus(defaultStatus)
          THEN UNCHANGED <<tasks, nextId>>
          ELSE /\ tasks' = Put(tasks, t,
                               taskPreSave(
                                 [project |-> p,
                                  sprint |-> IF bodySprint = Absent THEN NoSprint
                                             ELSE bodySprint,
                                  status |-> defaultStatus,
                                  storyPoints |-> IF bodyPoints = Absent THEN NoPoints
                                                  ELSE bodyPoints,
                                  workItemType |-> childType,
                                  parentTask |-> parent,
                                  completedAt |-> NoDate], TRUE))
               /\ nextId' = [nextId EXCEPT !.task = t + 1]
    /\ UNCHANGED <<memberVars, projects, sprints, now, permVars, res, scopeVars, restVars>>

\* projectController.updateTask on the route of project projectId: the parent
\* checks (validateParentRelationship only when the body has a parentTask key),
\* findByIdAndUpdate(taskId, {...req.body}), which runs no save hook, then the
\* task's (new) sprint is measured when it is planning or active
updateTask(projectId, t, bodySprint, bodyStatus, bodyPoints, bodyType, bodyParent) ==
    /\ t \in DOMAIN tasks
    /\ LET effectiveType == StoredWorkItemType(bodyType, tasks[t].workItemType)
           effectiveParent == IF bodyParent = Absent THEN tasks[t].parentTask ELSE bodyParent
       IN
       IF \/ effectiveType \in PARENT_REQUIRED_TYPES /\ effectiveParent = NoParent
          \/ /\ bodyParent # Absent
             /\ validateParentRelationship(tasks, projectId, t, bodyParent, effectiveType) # "ok"
          \/ bodyStatus # "absent" /\ ~ValidTaskStatus(bodyStatus)
       THEN UNCHANGED <<tasks, sprints>>
       ELSE LET doc == [tasks[t] EXCEPT
                           !.sprint = IF bodySprint = Absent THEN @ ELSE bodySprint,
                           !.status = IF bodyStatus = "absent" THEN @ ELSE bodyStatus,
                           !.storyPoints = IF bodyPoints = Absent THEN @ ELSE bodyPoints,
                           !.workItemType = effectiveType,
                           !.parentTask = effectiveParent]
                after == [tasks EXCEPT ![t] = doc]
                s == doc.sprint
            IN /\ tasks' = after
               /\ sprints' = IF s # NoSprint /\ s \in DOMAIN sprints
                                /\ sprints[s].status \in {"active", "planning"}
                             THEN [sprints EXCEPT ![s] = updateMetrics(sprints[s], s, after)]
                             ELSE sprints
    /\ UNCHANGED <<memberVars, projects, nextId, now, permVars, res, scopeVars, restVars>>

\* projectController.deleteTask: no sprint is measured
deleteTask(t) ==
    /\ t \in DOMAIN tasks
    /\ tasks' = Remove(tasks, {t})
    /\ UNCHANGED <<memberVars, projects, sprints, nextId, now, permVars, res, scopeVars, restVars>>

\* projectController.updateTaskStatus: a move into the completed category needs
\* a completionReason and sets completedAt unless it is set, any other move
\* clears it; task.save(); the task's sprint is measured when planning or active
updateTaskStatus(t, status, hasReason) ==
    /\ t \in DOMAIN tasks
    /\ LET isCompletedCategory == status \in {"completed", "resolved", "closed"}
       IN IF (isCompletedCategory /\ ~hasReason) \/ ~ValidTaskStatus(status)
          THEN UNCHANGED <<tasks, sprints>>
          ELSE LET doc == [tasks[t] EXCEPT
                              !.status = status,
                              !.completedAt = IF isCompletedCategory
                                              THEN (IF @ = NoDate THEN NewDate ELSE @)
                                              ELSE NoDate]
                   after == [tasks EXCEPT
                                ![t] = taskPreSave(doc, status # tasks[t].status)]
                   s == tasks[t].sprint
               IN /\ tasks' = after
                  /\ sprints' = IF s # NoSprint /\ s \in DOMAIN sprints
                                   /\ sprints[s].status \in {"active", "planning"}
                                THEN [sprints EXCEPT ![s] = updateMetrics(sprints[s], s, after)]
                                ELSE sprints
    /\ UNCHANGED <<memberVars, projects, nextId, now, permVars, res, scopeVars, restVars>>

\* sprintController.addTasksToSprint: never into a completed or cancelled sprint
addTasksToSprint(s, taskIds) ==
    /\ s \in DOMAIN sprints
    /\ taskIds # {}
    /\ IF sprints[s].status \in {"completed", "cancelled"}
       THEN UNCHANGED <<tasks, sprints>>
       ELSE LET after == [t \in DOMAIN tasks |->
                            IF t \in taskIds THEN [tasks[t] EXCEPT !.sprint = s] ELSE tasks[t]]
            IN /\ tasks' = after
               /\ sprints' = [sprints EXCEPT ![s] = updateMetrics(sprints[s], s, after)]
    /\ UNCHANGED <<memberVars, projects, nextId, now, permVars, res, scopeVars, restVars>>

\* sprintController.removeTaskFromSprint: never from a completed sprint
removeTaskFromSprint(s, t) ==
    /\ s \in DOMAIN sprints
    /\ t \in DOMAIN tasks
    /\ IF sprints[s].status = "completed"
       THEN UNCHANGED <<tasks, sprints>>
       ELSE LET after == [tasks EXCEPT ![t].sprint = NoSprint]
            IN /\ tasks' = after
               /\ sprints' = [sprints EXCEPT ![s] = updateMetrics(sprints[s], s, after)]
    /\ UNCHANGED <<memberVars, projects, nextId, now, permVars, res, scopeVars, restVars>>

\* ------------------------------------- startSprint, one database call at a time
\* A startSprint request under way: the sprint it names, the await it has
\* reached, its in-memory sprint document, the status it read, whether its
\* active-sprint check ran before any other request wrote a started sprint, and
\* its response code (0 before it answers).
StartCall(s, pc, doc, code) ==
    [sprint |-> s, pc |-> pc, doc |-> doc, readStatus |-> doc.status,
     checkedFirst |-> FALSE, code |-> code]

FreshStartCall == First((1..MaxStartCalls) \ DOMAIN startCalls)

\* frame of the steps of a startSprint request
StartCallFrame == UNCHANGED <<memberVars, tasks, nextId, now, permVars, res, scopeVars,
                               reports, jobVars, streamVars>>

\* const sprint = await Sprint.findById(req.params.sprintId)
startSprint_findById(s) ==
    /\ FreshStartCall # 0
    /\ s \in DOMAIN sprints
    /\ startCalls' = Put(startCalls, FreshStartCall, StartCall(s, "found", sprints[s], 0))
    /\ UNCHANGED <<sprints, projects>>
    /\ StartCallFrame

\* const activeSprint = await Sprint.findOne({ project, status: "active" });
\* 400 when there is one
startSprint_findActive(c) ==
    /\ c \in DOMAIN startCalls
    /\ startCalls[c].pc = "found"
    /\ startCalls' =
          IF HasActiveSprint(startCalls[c].doc.project)
          THEN [startCalls EXCEPT ![c].pc = "done", ![c].code = 400]
          ELSE [startCalls EXCEPT
                  ![c].pc = "checked",
                  ![c].checkedFirst =
                      \A d \in DOMAIN startCalls \ {c} :
                         ~(startCalls[d].pc = "started"
                           \/ (startCalls[d].pc = "done" /\ startCalls[d].code = 200))]
    /\ UNCHANGED <<sprints, projects>>
    /\ StartCallFrame

\* await sprint.updateMetrics(): the counters are computed into the in-memory
\* document and save() writes them
startSprint_updateMetrics(c) ==
    /\ c \in DOMAIN startCalls
    /\ startCalls[c].pc = "checked"
    /\ LET s == startCalls[c].sprint
           measured == updateMetrics(startCalls[c].doc, s, tasks)
       IN /\ startCalls' = [startCalls EXCEPT ![c].pc = "measured", ![c].doc = measured]
          /\ sprints' = [sprints EXCEPT
                            ![s].metrics.totalTasks = measured.metrics.totalTasks,
                            ![s].metrics.completedTasks = measured.metrics.completedTasks,
                            ![s].metrics.totalStoryPoints = measured.metrics.totalStoryPoints,
                            ![s].metrics.completedStoryPoints =
                                measured.metrics.completedStoryPoints]
    /\ UNCHANGED projects
    /\ StartCallFrame

\* a start step that writes the new status only while the project has no
\* active sprint
startSprint_start_Conditional(c) ==
    /\ c \in DOMAIN startCalls
    /\ startCalls[c].pc = "measured"
    /\ LET s == startCalls[c].sprint
           r == start(startCalls[c].doc)
       IN IF ~r.ok \/ HasActiveSprint(startCalls[c].doc.project)
          THEN /\ startCalls' = [startCalls EXCEPT ![c].pc = "done", ![c].code = 400]
               /\ UNCHANGED sprints
          ELSE /\ startCalls' = [startCalls EXCEPT ![c].pc = "started", ![c].doc = r.doc]
               /\ sprints' = [sprints EXCEPT
                                 ![s].status = r.doc.status,
                                 ![s].actualStartDate = r.doc.actualStartDate,
                                 ![s].metrics.burndownData = r.doc.metrics.burndownData]
    /\ UNCHANGED projects
    /\ StartCallFrame

\* await sprint.start(): the status test on the in-memory document, then save()
\* of the status, the start date and the burndown data; 400 when it throws
startSprint_start(c) ==
    /\ c \in DOMAIN startCalls
    /\ startCalls[c].pc = "measured"
    /\ LET s == startCalls[c].sprint
           r == start(startCalls[c].doc)
       IN IF ~r.ok
          THEN /\ startCalls' = [startCalls EXCEPT ![c].pc = "done", ![c].code = 400]
               /\ UNCHANGED sprints
          ELSE /\ startCalls' = [startCalls EXCEPT ![c].pc = "started", ![c].doc = r.doc]
               /\ sprints' = [sprints EXCEPT
                                 ![s].status = r.doc.status,
                                 ![s].actualStartDate = r.doc.actualStartDate,
                                 ![s].metrics.burndownData = r.doc.metrics.burndownData]
    /\ UNCHANGED projects
    /\ StartCallFrame

\* await Project.findByIdAndUpdate(sprint.project, { currentSprint: sprint._id }),
\* then the 200 response
startSprint_setCurrentSprint(c) ==
    /\ c \in DOMAIN startCalls
    /\ startCalls[c].pc = "started"
    /\ projects' = [projects EXCEPT
                       ![startCalls[c].doc.project].currentSprint = startCalls[c].sprint]
    /\ startCalls' = [startCalls EXCEPT ![c].pc = "done", ![c].code = 200]
    /\ UNCHANGED sprints
    /\ StartCallFrame

\* routes/sprints.js: setTeamContext and requireProjectPermission("MANAGE_SPRINTS")
\* in front of a sprint handler; a request the middleware answers never reaches
\* the handler
manageSprintsRoute(teamId, projectId, actor, handler) ==
    LET ctx == setTeamContext(teamId, actor)
        perm == requireProjectPermission("MANAGE_SPRINTS", teamId, projectId, actor)
    IN IF ctx # PassedOn THEN res' = ctx /\ UNCHANGED <<dbVars, permVars, scopeVars, restVars>>
       ELSE IF perm # PassedOn THEN res' = perm /\ UNCHANGED <<dbVars, permVars, scopeVars, restVars>>
       ELSE handler

\* ====================================================== BANDWIDTH REPORTS
NoUser == 0

\* BandwidthReport.findOne({ team, user, month, year }): the id found, 0 for none
FindReport(teamId, user, month) ==
    First({r \in DOMAIN reports : /\ reports[r].team = teamId
                                  /\ reports[r].user = user
                                  /\ reports[r].month = month})

FreshReportId == First((1..MaxReports) \ DOMAIN reports)

\* frame of the bandwidth handlers
ReportFrame == UNCHANGED <<dbVars, permVars, scopeVars, startCalls, jobVars, streamVars>>

\* bandwidthReportSchema.methods.submit: throws unless draft, and when the
\* allocations exceed the available days
submit(rep) ==
    IF rep.status # "draft"
    THEN [ok |-> FALSE, message |-> "Only draft reports can be submitted", doc |-> rep]
    ELSE IF rep.allocatedDays > rep.availableDays
    THEN [ok |-> FALSE, message |-> "Total allocated days cannot exceed available days",
          doc |-> rep]
    ELSE [ok |-> TRUE, message |-> "",
          doc |-> [rep EXCEPT !.status = "submitted", !.submittedAt = NewDate]]

\* bandwidthReportSchema.methods.approve: throws unless submitted
approve(rep, approverId) ==
    IF rep.status # "submitted"
    THEN [ok |-> FALSE, message |-> "Only submitted reports can be approved", doc |-> rep]
    ELSE [ok |-> TRUE, message |-> "",
          doc |-> [rep EXCEPT !.status = "approved", !.approvedBy = approverId,
                              !.approvedAt = NewDate, !.rejectionReason = FALSE]]

\* bandwidthReportSchema.methods.reject: throws unless submitted
reject(rep) ==
    IF rep.status # "submitted"
    THEN [ok |-> FALSE, message |-> "Only submitted reports can be rejected", doc |-> rep]
    ELSE [ok |-> TRUE, message |-> "",
          doc |-> [rep EXCEPT !.status = "rejected", !.rejectionReason = TRUE]]

\* bandwidthController.createReport: one report per team, user and period;
\* BandwidthReport.create({...req.body, team, user, status: "approved",
\* submittedAt, approvedAt})
createReport(teamId, actor, month, availableDays, allocatedDays) ==
    /\ IF FindReport(teamId, actor, month) # 0
       THEN res' = Res(400, "Report already exists for this period") /\ UNCHANGED reports
       ELSE /\ FreshReportId # 0
            /\ reports' = Put(reports, FreshReportId,
                              [team |-> teamId, user |-> actor, month |-> month,
                               availableDays |-> availableDays,
                               allocatedDays |-> allocatedDays,
                               status |-> "approved",
                               submittedAt |-> NewDate,
                               approvedBy |-> NoUser,
                               approvedAt |-> NewDate,
                               rejectionReason |-> FALSE])
            /\ res' = Res(201, "")
    /\ ReportFrame

\* bandwidthController.updateReport: the owner's findByIdAndUpdate(reportId,
\* {...req.body, status: "approved", approvedAt})
updateReport(actor, r, availableDays, allocatedDays) ==
    /\ IF r \notin DOMAIN reports
       THEN res' = Res(404, "Report not found") /\ UNCHANGED reports
       ELSE IF reports[r].user # actor
       THEN res' = Res(403, "Not authorized to update this report") /\ UNCHANGED reports
       ELSE /\ reports' = [reports EXCEPT ![r].availableDays = availableDays,
                                           ![r].allocatedDays = allocatedDays,
                                           ![r].status = "approved",
                                           ![r].approvedAt = NewDate]
            /\ res' = Res(200, "")
    /\ ReportFrame

\* bandwidthController.deleteReport: by the owner
deleteReport(actor, r) ==
    /\ IF r \notin DOMAIN reports
       THEN res' = Res(404, "Report not found") /\ UNCHANGED reports
       ELSE IF reports[r].user # actor
       THEN res' = Res(403, "Not authorized to delete this report") /\ UNCHANGED reports
       ELSE reports' = Remove(reports, {r}) /\ res' = Res(200, "Report deleted successfully")
    /\ ReportFrame

\* bandwidthController.submitReport: by the owner, through report.submit()
submitReport(actor, r) ==
    /\ IF r \notin DOMAIN reports
       THEN res' = Res(404, "Report not found") /\ UNCHANGED reports
       ELSE IF reports[r].user # actor
       THEN res' = Res(403, "Not authorized to submit this report") /\ UNCHANGED reports
       ELSE LET out == submit(reports[r])
            IN IF ~out.ok THEN res' = Res(400, out.message) /\ UNCHANGED reports
               ELSE /\ reports' = [reports EXCEPT ![r] = out.doc]
                    /\ res' = Res(200, "Report submitted for approval")
    /\ ReportFrame

\* bandwidthController.approveReport: through report.approve(req.user._id)
approveReport(actor, r) ==
    /\ IF r \notin DOMAIN reports
       THEN res' = Res(404, "Report not found") /\ UNCHANGED reports
       ELSE LET out == approve(reports[r], actor)
            IN IF ~out.ok THEN res' = Res(400, out.message) /\ UNCHANGED reports
               ELSE /\ reports' = [reports EXCEPT ![r] = out.doc]
                    /\ res' = Res(200, "Report approved successfully")
    /\ ReportFrame

\* bandwidthController.rejectReport: needs a reason, then report.reject(reason)
rejectReport(r, hasReason) ==
    /\ IF ~hasReason
       THEN res' = Res(400, "Rejection reason is required") /\ UNCHANGED reports
       ELSE IF r \notin DOMAIN reports
       THEN res' = Res(404, "Report not found") /\ UNCHANGED reports
       ELSE LET out == reject(reports[r])
            IN IF ~out.ok THEN res' = Res(400, out.message) /\ UNCHANGED reports
               ELSE /\ reports' = [reports EXCEPT ![r] = out.doc]
                    /\ res' = Res(200, "Report rejected")
    /\ ReportFrame

\* ===================================================== NOTIFICATION STREAM
\* frame of the stream steps
StreamFrame == UNCHANGED <<dbVars, permVars, res, scopeVars, startCalls, reports,
                           jobVars>>

\* GET /api/teams/:teamId/notifications/stream arrives: protect and
\* setTeamContext await the database before the handler runs
acceptStream ==
    /\ Len(connections) < MaxConnections
    /\ connections' = Append(connections, "accepted")
    /\ UNCHANGED <<listeners, timers>>
    /\ StreamFrame

\* notificationController.streamNotifications: sendEvent is registered on
\* notificationEmitter, the keepAlive interval is set, and the close callback
\* is attached to req; a request that closed before this gets no close event
streamNotifications(c) ==
    /\ c \in DOMAIN connections
    /\ connections[c] \in {"accepted", "aborted"}
    /\ listeners' = listeners \cup {c}
    /\ timers' = timers \cup {c}
    /\ connections' = [connections EXCEPT
                          ![c] = IF @ = "accepted" THEN "open" ELSE "closed"]
    /\ StreamFrame

\* The client disconnects: req emits close once; the callback of
\* streamNotifications, when attached, clears the interval and removes the
\* listener.
closeStream(c) ==
    /\ c \in DOMAIN connections
    /\ connections[c] \in {"accepted", "open"}
    /\ IF connections[c] = "open"
       THEN /\ timers' = timers \ {c}
            /\ listeners' = listeners \ {c}
            /\ connections' = [connections EXCEPT ![c] = "closed"]
       ELSE /\ connections' = [connections EXCEPT ![c] = "aborted"]
            /\ UNCHANGED <<listeners, timers>>
    /\ StreamFrame

\* ======================================================== REMINDER JOBS
NoTask == 0

\* the elements of a set of ids, smallest first: the order find() returns them in
RECURSIVE Ascending(_)
Ascending(S) == IF S = {} THEN << >> ELSE <<First(S)>> \o Ascending(S \ {First(S)})

\* Days of a month; a report period (month and year) is the number of its month
\* counted from the first month of the clock.
DaysPerMonth == 2
\* getNextMonthPeriod(new Date()): the period after the current one (month + 1,
\* or month 1 of the next year)
getNextMonthPeriod == (now \div DaysPerMonth) + 2

\* Notification.createNotification behind notificationController.createNotification:
\* nothing when the recipient is the actor, else the document is created
createNotification(coll, data) ==
    IF data.actor # NoUser /\ data.recipient = data.actor THEN coll ELSE Append(coll, data)

RECURSIVE createNotifications(_, _)
createNotifications(coll, docs) ==
    IF docs = << >> THEN coll
    ELSE createNotifications(createNotification(coll, Head(docs)), Tail(docs))

Reminder(recipient, team, type, title, relatedTask) ==
    [recipient |-> recipient, team |-> team, type |-> type, title |-> title,
     relatedTask |-> relatedTask, actor |-> NoUser]

\* status: { $nin: ["completed", "resolved", "closed", "done"] },
\* assignedTo: { $exists: true, $ne: null }
IncompleteAssignedTasks ==
    {t \in DOMAIN tasks : /\ tasks[t].status \notin {"completed", "resolved", "closed", "done"}
                          /\ tasks[t].assignedTo # NoUser}

\* the reminders of the bandwidth job: one per active team member without a
\* report for the next period
BandwidthReminders ==
    LET due == {m \in DOMAIN teamMembers :
                  /\ teamMembers[m].status = "active"
                  /\ FindReport(teamMembers[m].team, teamMembers[m].user,
                                getNextMonthPeriod) = 0}
        order == Ascending(due)
    IN [i \in 1..Len(order) |->
          Reminder(teamMembers[order[i]].user, teamMembers[order[i]].team,
                   "bandwidth_reminder", "Bandwidth Report Due", NoTask)]

\* the reminders of the overdue job: one per assigned, unfinished task due today
\* or earlier
OverdueReminders ==
    LET due == {t \in IncompleteAssignedTasks :
                  /\ tasks[t].dueDate # NoDate
                  /\ tasks[t].dueDate <= setHoursMidnight(NewDate)
                  /\ tasks[t].team \in DOMAIN teams}
        order == Ascending(due)
    IN [i \in 1..Len(order) |->
          Reminder(tasks[order[i]].assignedTo, tasks[order[i]].team,
                   "task_reminder", "Overdue Task", order[i])]

\* the reminders of the daily job: one per user and team with unfinished tasks,
\* in the order the first task of each is found
DailyReminders ==
    LET mine == {t \in IncompleteAssignedTasks : tasks[t].team \in DOMAIN teams}
        firsts == {t \in mine :
                     \A u \in mine :
                        (tasks[u].assignedTo = tasks[t].assignedTo
                           /\ tasks[u].team = tasks[t].team) => t <= u}
        order == Ascending(firsts)
    IN [i \in 1..Len(order) |->
          Reminder(tasks[order[i]].assignedTo, tasks[order[i]].team,
                   "task_reminder", "Daily Task Reminder", NoTask)]

\* a run of a cron job that sends the given reminders
RunJob(job, reminders) ==
    /\ Len(notifications) + Len(reminders) <= MaxNotifications
    /\ notifications' = createNotifications(notifications, reminders)
    /\ lastRun' = [job |-> job, teamMembers |-> teamMembers, reports |-> reports,
                   tasks |-> tasks]
    /\ UNCHANGED <<dbVars, permVars, res, scopeVars, startCalls, reports, streamVars>>

\* notificationScheduler.scheduleBandwidthReminders: the cron callback
scheduleBandwidthReminders == RunJob("bandwidth", BandwidthReminders)
\* notificationScheduler.scheduleTaskReminders: the cron callback
scheduleTaskReminders == RunJob("overdue", OverdueReminders)
\* notificationScheduler.scheduleDailyTaskReminders: sendReminders
scheduleDailyTaskReminders == RunJob("daily", DailyReminders)

\* ========================================================= SPECIFICATIONS
ProjectIds == 1..MaxProjects
SprintIds == 1..MaxSprints
TaskIds == 1..MaxPlannedTasks
BodyStatuses == SprintStatuses \cup {"absent"}
BodyPoints == StoryPointValues \cup {Absent}
\* Roles a membership request carries: the enum's, none, and one no enum lists
BodyTeamRoles == TeamRoleEnum \cup {"absent", "project_manager"}
BodyProjectRoles == ProjectRoleEnum \cup {"absent"}
\* Task statuses the requests carry ("resolved" is the default workflow's
\* completed status, which the Task schema's enum refuses)
RequestTaskStatuses == {"todo", "completed", "resolved"}

\* the database before the first request
EmptyDb ==
    /\ teams = << >>
    /\ teamMembers = << >>
    /\ projects = << >>
    /\ projectMembers = << >>
    /\ memberRes = Res(0, "")
    /\ res = Res(0, "")
    /\ sprints = << >>
    /\ tasks = << >>
    /\ nextId = [team |-> 1, project |-> 1, sprint |-> 1, task |-> 1]
    /\ now = 0

\* ---- the permission functions, called with every combination of arguments
InitPerm ==
    EmptyDb /\ permCall \in PermCalls /\ permResult = "pending" /\ IdleScope /\ IdleRest
NextPerm == CallCheckTeamPermission \/ CallCheckProjectPermission \/ NextCall
SpecPerm == InitPerm /\ [][NextPerm]_vars

\* ---- the scoping functions, called by every active member of a team
ScopeUsers == 1..MaxScopeUsers

\* a TeamMember document with its reportingManager, as addTeamMember stores it
ScopeMember(t, u, role, st, rm) ==
    [team |-> t, user |-> u, role |-> role, status |-> st,
     permissions |-> TeamRoleFlags(role), reportingManager |-> rm]

\* the handlers' call on behalf of an active member of team 1:
\* getScopedUserIds(teamId, req.user, req.teamMembership.role)
ScopeCalls(coll) ==
    { [fn |-> f, teamId |-> 1, requester |-> coll[m].user, role |-> coll[m].role] :
        f \in {"getScopedUserIds", "getScopedUserIds_Reports"},
        m \in {x \in DOMAIN coll : coll[x].team = 1 /\ coll[x].status = "active"} }

\* Team 1 with a membership per user, of any role the schema allows for the
\* first user, active or suspended, reporting to nobody or to any user; the
\* second user is also a member of team 2 and reports to the first user there.
InitScope ==
    /\ teams = <<[owner |-> 1, isActive |-> TRUE], [owner |-> 2, isActive |-> TRUE]>>
    /\ \E role \in TeamRoleEnum, st \in [ScopeUsers -> {"active", "suspended"}],
          rm \in [ScopeUsers -> {NoManager} \cup ScopeUsers] :
          teamMembers =
            [i \in 1..(MaxScopeUsers + 1) |->
               IF i <= MaxScopeUsers
               THEN ScopeMember(1, i, IF i = 1 THEN role ELSE "member", st[i], rm[i])
               ELSE ScopeMember(2, 2, "admin", "active", 1)]
    /\ projects = << >>
    /\ projectMembers = << >>
    /\ memberRes = Res(0, "")
    /\ res = Res(0, "")
    /\ sprints = << >>
    /\ tasks = << >>
    /\ nextId = [team |-> 3, project |-> 1, sprint |-> 1, task |-> 1]
    /\ now = 0
    /\ IdlePerm
    /\ scopeCall \in ScopeCalls(teamMembers)
    /\ scopeResult = [returned |-> FALSE, ids |-> {}]
    /\ IdleRest

\* the next call, by any active member
NextScopeCall ==
    /\ scopeResult.returned
    /\ scopeCall' \in ScopeCalls(teamMembers)
    /\ scopeResult' = [returned |-> FALSE, ids |-> {}]
    /\ UNCHANGED <<dbVars, res, permVars, restVars>>

NextScope == CallGetScopedUserIds \/ CallGetScopedUserIds_Reports \/ NextScopeCall
SpecScope == InitScope /\ [][NextScope]_vars

\* ---- memberships
\* the admin membership createTeam stores for the owner
OwnerMembership(t, u) ==
    [team |-> t, user |-> u, role |-> "admin", status |-> "active",
     permissions |-> TeamRoleFlags("admin")]

\* a membership an earlier invitation left in one of the schema's other statuses
StoredMembership(t, u, st) ==
    [team |-> t, user |-> u, role |-> "member", status |-> st,
     permissions |-> TeamRoleFlags("member")]

\* The state createTeam by user 1 leaves; user 2 has no membership of the team
\* or one that is not active.
InitMember ==
    /\ teams = <<[owner |-> 1, isActive |-> TRUE]>>
    /\ teamMembers \in {<<OwnerMembership(1, 1)>>}
                       \cup {<<OwnerMembership(1, 1), StoredMembership(1, 2, st)>> :
                                st \in MemberStatusEnum \ {"active"}}
    /\ projects = << >>
    /\ projectMembers = << >>
    /\ memberRes = Res(201, "Team created successfully")
    /\ res = Res(0, "")
    /\ sprints = << >>
    /\ tasks = << >>
    /\ nextId = [team |-> 2, project |-> 1, sprint |-> 1, task |-> 1]
    /\ now = 0
    /\ IdlePerm
    /\ IdleScope
    /\ IdleRest

\* team memberships of two teams, with the roles an invitation usually carries
InviteRoles == {"admin", "member", "absent", "project_manager"}

NextTeamMember ==
    \/ \E actor \in Users : createTeam(actor)
    \/ \E t \in TeamIds, u \in Users, role \in InviteRoles : addTeamMember(t, u, role)
    \/ \E t \in TeamIds, actor \in Users, u \in Users, role \in InviteRoles :
          updateTeamMember(t, actor, u, role)
    \/ \E t \in TeamIds, u \in Users, role \in InviteRoles \ {"absent"} :
          updateMemberRole(t, u, role)
    \/ \E t \in TeamIds, u \in Users : removeTeamMember(t, u)
    \/ \E t \in TeamIds, u \in Users : removeMember(t, u)

SpecTeamMember == InitMember /\ [][NextTeamMember]_vars

\* team and project memberships of the first team and its project
NextMember ==
    \/ \E u \in Users, role \in BodyTeamRoles : addTeamMember(1, u, role)
    \/ \E actor \in Users, u \in Users, role \in BodyTeamRoles :
          updateTeamMember(1, actor, u, role)
    \/ \E u \in Users, role \in BodyTeamRoles \ {"absent"} : updateMemberRole(1, u, role)
    \/ \E u \in Users : removeTeamMember(1, u)
    \/ \E u \in Users : removeMember(1, u)
    \/ \E actor \in Users : nextId.project <= MaxMemberProjects /\ createProject(1, actor)
    \/ \E p \in ProjectIds, u \in Users, role \in BodyProjectRoles :
          addProjectMember(1, p, u, role)
    \/ \E p \in ProjectIds, u \in Users, role \in BodyProjectRoles :
          updateProjectMember(p, u, role)
    \/ \E p \in ProjectIds, u \in Users : removeProjectMember(p, u)

SpecMember == InitMember /\ [][NextMember]_vars

\* the memberships of the first team and its project, and the project's deletion
NextProjectAccess ==
    \/ \E u \in Users, role \in {"admin", "member"} : addTeamMember(1, u, role)
    \/ \E actor \in Users, u \in Users, role \in {"admin", "member"} :
          updateTeamMember(1, actor, u, role)
    \/ \E actor \in Users : nextId.project <= MaxMemberProjects /\ createProject(1, actor)
    \/ \E p \in ProjectIds, u \in Users, role \in ProjectRoleEnum :
          addProjectMember(1, p, u, role)
    \/ \E p \in ProjectIds, u \in Users, role \in ProjectRoleEnum :
          updateProjectMember(p, u, role)
    \/ \E p \in ProjectIds, u \in Users : removeProjectMember(p, u)
    \/ \E p \in ProjectIds, actor \in Users : deleteProject(1, p, actor)

SpecProjectAccess == InitMember /\ [][NextProjectAccess]_vars

\* ---- the sprint lifecycle: project and sprint requests, no tasks
\* The state createTeam by user 1 leaves.
InitTeam ==
    /\ teams = <<[owner |-> 1, isActive |-> TRUE]>>
    /\ teamMembers = <<OwnerMembership(1, 1)>>
    /\ projects = << >>
    /\ projectMembers = << >>
    /\ memberRes = Res(201, "Team created successfully")
    /\ res = Res(0, "")
    /\ sprints = << >>
    /\ tasks = << >>
    /\ nextId = [team |-> 2, project |-> 1, sprint |-> 1, task |-> 1]
    /\ now = 0
    /\ IdlePerm
    /\ IdleScope
    /\ IdleRest

NextLifecycle ==
    \/ createProject(1, 1)
    \/ \E p \in ProjectIds, st \in BodyStatuses : createSprint(p, st)
    \/ \E s \in SprintIds, st \in BodyStatuses : updateSprint(s, st)
    \/ \E s \in SprintIds : deleteSprint(s)
    \/ \E s \in SprintIds : startSprint(s)
    \/ \E s \in SprintIds, to \in {NoSprint} \cup KnownSprints : completeSprint(s, to)
    \/ \E s \in SprintIds : cancelSprint(s)
    \/ Tick

SpecLifecycle == InitTeam /\ [][NextLifecycle]_vars

\* ---- sprints and one task of one project, from the first request on
NextSprint ==
    \/ nextId.project <= MaxMetricProjects /\ nextId.sprint <= MaxMetricSprints
       /\ createProject(1, 1)
    \/ \E p \in ProjectIds : nextId.sprint <= MaxMetricSprints /\ createSprint(p, "absent")
    \/ \E s \in SprintIds : startSprint(s)
    \/ \E s \in SprintIds, to \in {NoSprint} \cup KnownSprints : completeSprint(s, to)
    \/ \E s \in SprintIds : cancelSprint(s)
    \/ \E s \in SprintIds : deleteSprint(s)
    \/ \E p \in ProjectIds, s \in {Absent} \cup KnownSprints,
          st \in RequestTaskStatuses \cup {"absent"}, sp \in BodyPoints :
          nextId.task <= MaxTasks /\ createTask(p, s, st, sp, "absent", Absent)
    \/ \E t \in TaskIds, s \in {NoSprint} \cup KnownSprints,
          st \in RequestTaskStatuses \cup {"absent"}, sp \in BodyPoints :
          updateTask(1, t, s, st, sp, "absent", Absent)
    \/ \E t \in TaskIds : deleteTask(t)
    \/ \E t \in TaskIds, st \in RequestTaskStatuses, r \in BOOLEAN : updateTaskStatus(t, st, r)
    \/ \E s \in SprintIds, ts \in SUBSET TaskIds : addTasksToSprint(s, ts)
    \/ \E s \in SprintIds, t \in TaskIds : removeTaskFromSprint(s, t)

SpecSprint == InitTeam /\ [][NextSprint]_vars

\* ---- a planned sprint and its tasks
\* Task documents createTask stores on the first day: in the planned sprint or
\* the backlog, of the default work item type, completedAt set when completed
PlannedTaskDocs ==
    { [project |-> 1, sprint |-> s, status |-> st, storyPoints |-> sp,
       workItemType |-> "task", parentTask |-> NoParent,
       completedAt |-> IF st = "completed" THEN 1 ELSE NoDate] :
         s \in {NoSprint, 2}, st \in {"todo", "completed"},
         sp \in StoryPointValues \cup {NoPoints} }

\* The state after createTeam, createProject, cancelSprint of the project's first
\* sprint, createSprint, and createTask once per task: sprint 2 is planned and
\* not measured yet.
InitPlanned ==
    /\ teams = <<[owner |-> 1, isActive |-> TRUE]>>
    /\ teamMembers = <<OwnerMembership(1, 1)>>
    /\ projects = <<[team |-> 1, createdBy |-> 1, currentSprint |-> NoSprint]>>
    /\ projectMembers = <<[project |-> 1, user |-> 1, role |-> "owner",
                           permissions |-> ProjectRoleFlags("owner")]>>
    /\ memberRes = Res(201, "Team created successfully")
    /\ res = Res(0, "")
    /\ sprints = <<NewSprint(1, 1, "cancelled"), NewSprint(1, 1, "planning")>>
    /\ tasks \in [TaskIds -> PlannedTaskDocs]
    /\ nextId = [team |-> 2, project |-> 2, sprint |-> 3, task |-> MaxPlannedTasks + 1]
    /\ now = 0
    /\ IdlePerm
    /\ IdleScope
    /\ IdleRest

NextPlanned ==
    \/ \E s \in KnownSprints : startSprint(s)
    \/ \E s \in KnownSprints, to \in {NoSprint} \cup KnownSprints : completeSprint(s, to)
    \/ \E s \in KnownSprints : cancelSprint(s)
    \/ \E s \in KnownSprints : deleteSprint(s)
    \/ \E s \in KnownSprints : getBurndownData(s)
    \/ \E t \in TaskIds, st \in RequestTaskStatuses, r \in BOOLEAN : updateTaskStatus(t, st, r)
    \/ Tick

SpecPlanned == InitPlanned /\ [][NextPlanned]_vars

\* ---- the work-item hierarchy: tasks of two projects, their types and parents
\* Work item types the requests carry, or none
BodyWorkItemTypes == {"absent", "epic", "story", "subtask"}
\* Task ids a request can name: those handed out so far
KnownTasks == 1..(nextId.task - 1)

NextHierarchy ==
    \/ nextId.project <= MaxHierarchyProjects /\ createProject(1, 1)
    \/ \E p \in ProjectIds, ty \in BodyWorkItemTypes, parent \in {Absent} \cup KnownTasks :
          createTask(p, Absent, "absent", Absent, ty, parent)
    \/ \E p \in ProjectIds, t \in KnownTasks, ty \in BodyWorkItemTypes,
          parent \in {Absent, NoParent} \cup KnownTasks :
          p \in DOMAIN projects /\ updateTask(p, t, Absent, "absent", Absent, ty, parent)

SpecHierarchy == InitTeam /\ [][NextHierarchy]_vars

\* ---- two teams, their projects, and the sprint routes with their middleware
\* a request to one of the routes of routes/sprints.js that change sprints or tasks
SprintRouteRequest(teamId, projectId, actor) ==
    \/ \E s \in KnownSprints : manageSprintsRoute(teamId, projectId, actor, deleteSprint(s))
    \/ \E s \in KnownSprints : manageSprintsRoute(teamId, projectId, actor, startSprint(s))
    \/ \E s \in KnownSprints :
          manageSprintsRoute(teamId, projectId, actor, completeSprint(s, NoSprint))
    \/ \E s \in KnownSprints : manageSprintsRoute(teamId, projectId, actor, cancelSprint(s))
    \/ \E s \in KnownSprints, ts \in SUBSET KnownTasks :
          manageSprintsRoute(teamId, projectId, actor, addTasksToSprint(s, ts))
    \/ \E s \in KnownSprints, t \in KnownTasks :
          manageSprintsRoute(teamId, projectId, actor, removeTaskFromSprint(s, t))

NextTenant ==
    \/ \E actor \in Users : createTeam(actor)
    \/ \E t \in TeamIds, actor \in Users : createProject(t, actor)
    \/ \E p \in ProjectIds :
          nextId.task <= MaxTenantTasks
          /\ createTask(p, Absent, "absent", Absent, "absent", Absent)
    \/ \E t \in TeamIds, p \in ProjectIds, actor \in Users : SprintRouteRequest(t, p, actor)

SpecTenant == InitTeam /\ [][NextTenant]_vars

\* ---- team-scoped requests to an active team, a deactivated one and a missing one
\* Team ids a request can name: those handed out, and one no team has
RequestTeamIds == 1..nextId.team

\* Team 1 of user 1, where user 2 has no membership or one that is not active,
\* and team 2 of user 2, which has been deactivated.
InitTeamContext ==
    /\ teams = <<[owner |-> 1, isActive |-> TRUE], [owner |-> 2, isActive |-> FALSE]>>
    /\ teamMembers \in {<<OwnerMembership(1, 1), OwnerMembership(2, 2)>>}
                       \cup {<<OwnerMembership(1, 1), OwnerMembership(2, 2),
                                StoredMembership(1, 2, st)>> :
                                st \in MemberStatusEnum \ {"active"}}
    /\ projects = << >>
    /\ projectMembers = << >>
    /\ memberRes = Res(201, "Team created successfully")
    /\ res = Res(0, "")
    /\ sprints = << >>
    /\ tasks = << >>
    /\ nextId = [team |-> 3, project |-> 1, sprint |-> 1, task |-> 1]
    /\ now = 0
    /\ IdlePerm
    /\ IdleScope
    /\ IdleRest

\* a request to a route behind setTeamContext
TeamScopedRequest(teamId, projectId, actor) ==
    \/ deleteProject(teamId, projectId, actor)
    \/ SprintRouteRequest(teamId, projectId, actor)

NextTeamContext ==
    \/ \E role \in {"admin", "member"} : addTeamMember(1, 2, role)
    \/ \E actor \in Users : nextId.project <= MaxMetricProjects /\ createProject(1, actor)
    \/ \E p \in ProjectIds :
          nextId.task <= MaxTenantTasks
          /\ createTask(p, Absent, "absent", Absent, "absent", Absent)
    \/ \E t \in RequestTeamIds, p \in ProjectIds, actor \in Users :
          TeamScopedRequest(t, p, actor)

SpecTeamContext == InitTeamContext /\ [][NextTeamContext]_vars

\* ---- concurrent startSprint requests on the planned sprints of one project
\* The state after createTeam, createProject, cancelSprint of the project's first
\* sprint, createSprint twice, and createTask: sprints 2 and 3 are planned.
InitStartRace ==
    /\ teams = <<[owner |-> 1, isActive |-> TRUE]>>
    /\ teamMembers = <<OwnerMembership(1, 1)>>
    /\ projects = <<[team |-> 1, createdBy |-> 1, currentSprint |-> NoSprint]>>
    /\ projectMembers = <<[project |-> 1, user |-> 1, role |-> "owner",
                           permissions |-> ProjectRoleFlags("owner")]>>
    /\ memberRes = Res(201, "Team created successfully")
    /\ res = Res(0, "")
    /\ sprints = <<NewSprint(1, 1, "cancelled"), NewSprint(1, 1, "planning"),
                   NewSprint(1, 1, "planning")>>
    /\ tasks \in [1..MaxRaceTasks ->
                     { [project |-> 1, sprint |-> s, status |-> "todo", storyPoints |-> sp,
                        workItemType |-> "task", parentTask |-> NoParent,
                        completedAt |-> NoDate] :
                          s \in {2, 3}, sp \in StoryPointValues }]
    /\ nextId = [team |-> 2, project |-> 2, sprint |-> 4, task |-> MaxRaceTasks + 1]
    /\ now = 0
    /\ IdlePerm
    /\ IdleScope
    /\ IdleRest

NextStartRace ==
    \/ \E s \in KnownSprints : startSprint_findById(s)
    \/ \E c \in 1..MaxStartCalls : startSprint_findActive(c)
    \/ \E c \in 1..MaxStartCalls : startSprint_updateMetrics(c)
    \/ \E c \in 1..MaxStartCalls : startSprint_start(c)
    \/ \E c \in 1..MaxStartCalls : startSprint_setCurrentSprint(c)

SpecStartRace == InitStartRace /\ [][NextStartRace]_vars

\* ---- bandwidth reports of the members of one team
ReportIds == 1..MaxReports
Months == 1..MaxMonth
ReportDays == 0..MaxReportDays

NextBandwidth ==
    \/ \E actor \in Users, m \in Months, av \in ReportDays, al \in ReportDays :
          createReport(1, actor, m, av, al)
    \/ \E actor \in Users, r \in ReportIds, av \in ReportDays, al \in ReportDays :
          updateReport(actor, r, av, al)
    \/ \E actor \in Users, r \in ReportIds : deleteReport(actor, r)
    \/ \E actor \in Users, r \in ReportIds : submitReport(actor, r)
    \/ \E actor \in Users, r \in ReportIds : approveReport(actor, r)
    \/ \E r \in ReportIds, hasReason \in BOOLEAN : rejectReport(r, hasReason)
    \/ Tick

SpecBandwidth == InitTeam /\ [][NextBandwidth]_vars

\* ---- notification-stream connections of the members of one team
NextStream ==
    \/ acceptStream
    \/ \E c \in 1..MaxConnections : streamNotifications(c)
    \/ \E c \in 1..MaxConnections : closeStream(c)

SpecStream == InitTeam /\ [][NextStream]_vars

\* ---- the reminder jobs over the members, reports and tasks of one team
\* The state after createTeam, addTeamMember of user 2, createProject and
\* createTask with an assignee and a due date in the body.
InitReminder ==
    /\ teams = <<[owner |-> 1, isActive |-> TRUE]>>
    /\ teamMembers = <<OwnerMembership(1, 1), StoredMembership(1, 2, "active")>>
    /\ projects = <<[team |-> 1, createdBy |-> 1, currentSprint |-> 1]>>
    /\ projectMembers = <<[project |-> 1, user |-> 1, role |-> "owner",
                           permissions |-> ProjectRoleFlags("owner")]>>
    /\ memberRes = Res(201, "Team member added successfully")
    /\ res = Res(0, "")
    /\ sprints = <<NewSprint(1, 1, "active")>>
    /\ tasks \in [1..MaxReminderTasks ->
                     { [project |-> 1, team |-> 1, sprint |-> NoSprint, status |-> "todo",
                        storyPoints |-> NoPoints, workItemType |-> "task",
                        parentTask |-> NoParent, completedAt |-> NoDate,
                        assignedTo |-> u, dueDate |-> d] :
                          u \in {NoUser} \cup Users, d \in {NoDate, 2} }]
    /\ nextId = [team |-> 2, project |-> 2, sprint |-> 2, task |-> MaxReminderTasks + 1]
    /\ now = 0
    /\ IdlePerm
    /\ IdleScope
    /\ IdleRest

NextReminder ==
    \/ scheduleBandwidthReminders
    \/ scheduleTaskReminders
    \/ scheduleDailyTaskReminders
    \/ \E actor \in Users, m \in Months : createReport(1, actor, m, 0, 0)
    \/ \E t \in 1..MaxReminderTasks, st \in {"todo", "completed"} : updateTaskStatus(t, st, TRUE)
    \/ Tick

SpecReminder == InitReminder /\ [][NextReminder]_vars

\* ---- the sprint routes, requested by team members with project roles
NextSprintAccess ==
    \/ \E role \in {"Manager", "member"} : addTeamMember(1, 2, role)
    \/ \E actor \in Users : nextId.project <= MaxMetricProjects /\ createProject(1, actor)
    \/ \E p \in ProjectIds, u \in Users, role \in ProjectRoleEnum :
          addProjectMember(1, p, u, role)
    \/ \E p \in ProjectIds :
          nextId.task <= MaxTenantTasks
          /\ createTask(p, Absent, "absent", Absent, "absent", Absent)
    \/ \E p \in ProjectIds, actor \in Users :
          nextId.sprint <= MaxMetricSprints
          /\ manageSprintsRoute(1, p, actor, createSprint(p, "absent"))
    \/ \E p \in ProjectIds, actor \in Users, s \in KnownSprints :
          manageSprintsRoute(1, p, actor, updateSprint(s, "active"))
    \/ \E p \in ProjectIds, actor \in Users : SprintRouteRequest(1, p, actor)

SpecSprintAccess == InitTeam /\ [][NextSprintAccess]_vars

\* ================================================================= CLAIMS
\* The active sprints of a project
ActiveSprintsOf(p) ==
    {s \in DOMAIN sprints : sprints[s].project = p /\ sprints[s].status = "active"}

\* C1: after any sequence of project and sprint requests every project has at
\* most one sprint with status active.
C1_AtMostOneActiveSprint ==
    \A p \in DOMAIN projects : Cardinality(ActiveSprintsOf(p)) <= 1

\* C2: a sprint is created in planning, and its status changes only along the
\* lifecycle graph: planning -> active through start, active -> completed
\* through complete, planning or active -> cancelled through cancel; completed
\* and cancelled are final.
C2_StatusFollowsLifecycle ==
    [][\A s \in SprintIds :
          /\ (s \in DOMAIN sprints' /\ s \notin DOMAIN sprints)
                => sprints'[s].status = "planning"
          /\ (s \in DOMAIN sprints' /\ s \in DOMAIN sprints
              /\ sprints'[s].status # sprints[s].status)
                => \/ /\ sprints[s].status = "planning"
                      /\ sprints'[s].status = "active"
                      /\ startSprint(s)
                   \/ /\ sprints[s].status = "active"
                      /\ sprints'[s].status = "completed"
                      /\ \E to \in {NoSprint} \cup KnownSprints : completeSprint(s, to)
                   \/ /\ sprints[s].status \in {"planning", "active"}
                      /\ sprints'[s].status = "cancelled"
                      /\ cancelSprint(s)]_vars

\* startSprint's preconditions fail: the sprint is not in planning, or a sprint
\* of its project is active
StartRejected(s) ==
    sprints[s].status # "planning" \/ HasActiveSprint(sprints[s].project)

\* C3: a rejected startSprint and a rejected completeSprint leave the sprint
\* document and the project's currentSprint exactly as they were.
C3_RejectedRequestChangesNothing ==
    [][\A s \in SprintIds :
          (/\ s \in DOMAIN sprints
           /\ \/ StartRejected(s) /\ startSprint(s)
              \/ /\ sprints[s].status # "active"
                 /\ \E to \in {NoSprint} \cup KnownSprints : completeSprint(s, to))
          => /\ sprints' = sprints
             /\ projects' = projects]_vars

\* C4: whatever the action name and the project membership, checkProjectPermission
\* answers true for a team membership whose role is admin.
C4_TeamAdminAlwaysAllowed ==
    (/\ permResult # "pending"
     /\ permCall.fn = "checkProjectPermission"
     /\ permCall.teamMembership = "admin")
    => permResult = "true"

\* a call for a team admin without project membership, on an action name no
\* table lists, has returned true
C4_Witness ==
    /\ permCall.fn = "checkProjectPermission"
    /\ permCall.teamMembership = "admin"
    /\ permCall.projectMembership = NoMembership
    /\ permCall.permission = "MANAGE_SPRINTS"
    /\ permResult = "true"

\* role is listed for the action in the table
Listed(table, permission, role) ==
    permission \in DOMAIN table /\ role \in table[permission]

\* C5: the permission checks fail closed and never raise an error:
\* checkTeamPermission is true exactly when the membership exists and its role
\* is listed for the action; for a non-admin team membership
\* checkProjectPermission is true exactly when the project membership exists and
\* its role is listed; everything else is false.
C5_ChecksFailClosed ==
    /\ (permResult # "pending" /\ permCall.fn = "checkTeamPermission")
          => permResult =
               IF /\ permCall.teamMembership # NoMembership
                  /\ Listed(TEAM_PERMISSIONS, permCall.permission, permCall.teamMembership)
               THEN "true" ELSE "false"
    /\ (/\ permResult # "pending"
        /\ permCall.fn = "checkProjectPermission"
        /\ permCall.teamMembership # "admin")
          => permResult =
               IF /\ permCall.projectMembership # NoMembership
                  /\ Listed(PROJECT_PERMISSIONS, permCall.permission,
                            permCall.projectMembership)
               THEN "true" ELSE "false"

\* C6: every stored membership's permission flags are the flags of its current
\* role, at team and at project scope.
C6_FlagsFollowRole ==
    /\ \A m \in DOMAIN teamMembers :
          teamMembers[m].permissions = TeamRoleFlags(teamMembers[m].role)
    /\ \A m \in DOMAIN projectMembers :
          projectMembers[m].permissions = ProjectRoleFlags(projectMembers[m].role)

\* the team owner's membership, created as admin, is a Manager's now, a second
\* user was added as admin, and the project creator's membership, created as
\* owner, is a contributor's now
C6_Witness ==
    /\ \E m \in DOMAIN teamMembers :
          /\ teamMembers[m].user = teams[teamMembers[m].team].owner
          /\ teamMembers[m].role = "Manager"
          /\ teamMembers[m].permissions = TeamRoleFlags("Manager")
    /\ \E m \in DOMAIN teamMembers :
          /\ teamMembers[m].user # teams[teamMembers[m].team].owner
          /\ teamMembers[m].role = "admin"
          /\ teamMembers[m].permissions = TeamRoleFlags("admin")
    /\ \E m \in DOMAIN projectMembers :
          /\ projectMembers[m].user = projects[projectMembers[m].project].createdBy
          /\ projectMembers[m].role = "contributor"
          /\ projectMembers[m].permissions = ProjectRoleFlags("contributor")

\* The TeamMember documents of a (team, user) pair
MembershipsOf(coll, t, u) == {m \in DOMAIN coll : coll[m].team = t /\ coll[m].user = u}

\* C7: at most one TeamMember document exists per (team, user) pair; adding a
\* user whose membership is active fails and stores nothing; adding a user whose
\* membership is not active stores no second document and, with a role the
\* schema accepts, makes the existing document active.
C7_OneMembershipPerPair ==
    [][/\ \A t \in TeamIds, u \in Users : Cardinality(MembershipsOf(teamMembers', t, u)) <= 1
       /\ \A t \in TeamIds, u \in Users, role \in BodyTeamRoles :
             (FindTeamMember(t, u) # 0 /\ addTeamMember(t, u, role))
             => LET m == FindTeamMember(t, u)
                IN IF teamMembers[m].status = "active"
                   THEN teamMembers' = teamMembers /\ memberRes'.code = 400
                   ELSE /\ DOMAIN teamMembers' = DOMAIN teamMembers
                        /\ RoleOr(role, "member") \in TeamRoleEnum
                              => /\ teamMembers'[m].status = "active"
                                 /\ teamMembers'[m].role = RoleOr(role, "member")
                                 /\ memberRes'.code = 200]_vars

\* a membership that was not active has been made active again in place, and
\* it is the only one of its (team, user) pair
C7_Witness ==
    /\ memberRes = Res(200, "User added to team successfully")
    /\ \E t \in TeamIds, u \in Users :
          /\ t \in DOMAIN teams /\ u # teams[t].owner
          /\ Cardinality(MembershipsOf(teamMembers, t, u)) = 1
          /\ \A m \in MembershipsOf(teamMembers, t, u) :
                teamMembers[m].status = "active" /\ teamMembers[m].role = "admin"
    /\ \A m \in DOMAIN teamMembers : teamMembers[m].status = "active"

\* C8: updateMetrics run twice in a row over the same tasks leaves the four
\* counters as the first run left them, and no run adds a burndown point.
C8_UpdateMetricsIdempotent ==
    \A s \in DOMAIN sprints :
       LET once == updateMetrics(sprints[s], s, tasks)
           twice == updateMetrics(once, s, tasks)
       IN /\ twice.metrics.totalTasks = once.metrics.totalTasks
          /\ twice.metrics.completedTasks = once.metrics.completedTasks
          /\ twice.metrics.totalStoryPoints = once.metrics.totalStoryPoints
          /\ twice.metrics.completedStoryPoints = once.metrics.completedStoryPoints
          /\ once.metrics.burndownData = sprints[s].metrics.burndownData
          /\ twice.metrics.burndownData = sprints[s].metrics.burndownData

\* a started sprint of two tasks whose counters updateMetrics has stored, with
\* its burndown point, on which a further run changes nothing
C8_Witness ==
    \E s \in DOMAIN sprints :
       /\ sprints[s].status = "active"
       /\ sprints[s].metrics.totalTasks = 2
       /\ sprints[s].metrics.completedTasks = 1
       /\ sprints[s].metrics.totalStoryPoints = 8
       /\ sprints[s].metrics.completedStoryPoints = 3
       /\ Len(sprints[s].metrics.burndownData) = 1
       /\ updateMetrics(sprints[s], s, tasks) = sprints[s]

\* a startSprint request that succeeds on the planning sprint s
StartSucceeds(s) ==
    /\ s \in DOMAIN sprints
    /\ sprints[s].status = "planning"
    /\ startSprint(s)
    /\ sprints'[s].status = "active"

\* C9 as stated: a successful start on a planning sprint makes it active and
\* resets burndownData to one point whose remaining value is totalStoryPoints
\* and whose completed value is completedStoryPoints.
C9_StartSeedsCompletedPoints ==
    [][\A s \in SprintIds :
          StartSucceeds(s)
          => LET m == sprints'[s].metrics
             IN /\ Len(m.burndownData) = 1
                /\ m.burndownData[1].remainingPoints = m.totalStoryPoints
                /\ m.burndownData[1].completedPoints = m.completedStoryPoints]_vars

\* C9, amended: a successful start on a planning sprint whose metrics were just
\* recomputed makes it active and resets burndownData to one point whose
\* remaining value is totalStoryPoints and whose completed value is 0.
C9_StartSeedsZeroCompleted ==
    [][\A s \in SprintIds :
          StartSucceeds(s)
          => LET m == sprints'[s].metrics
             IN /\ m.totalStoryPoints =
                      SumOver(PointsOrZero(tasks), TasksOfSprint(tasks, s))
                /\ Len(m.burndownData) = 1
                /\ m.burndownData[1].remainingPoints = m.totalStoryPoints
                /\ m.burndownData[1].completedPoints = 0]_vars

\* a sprint started over tasks of 3 and 5 points, the 3-point one completed:
\* its one burndown point has remaining 8 and completed 0
C9_Witness ==
    \E s \in DOMAIN sprints :
       /\ sprints[s].status = "active"
       /\ sprints[s].metrics.totalStoryPoints = 8
       /\ sprints[s].metrics.completedStoryPoints = 3
       /\ Len(sprints[s].metrics.burndownData) = 1
       /\ sprints[s].metrics.burndownData[1].remainingPoints = 8
       /\ sprints[s].metrics.burndownData[1].completedPoints = 0
       /\ sprints[s].actualEndDate = NoDate

\* C10: a completeSprint that succeeds on an active sprint makes it completed,
\* sets actualEndDate, takes the velocity from the completed story points of the
\* sprint's tasks at that moment, and appends exactly one burndown point whose
\* remaining value is totalStoryPoints minus completedStoryPoints.
C10_CompleteFreezesVelocity ==
    [][\A s \in SprintIds, to \in {NoSprint} \cup KnownSprints :
          (s \in DOMAIN sprints /\ sprints[s].status = "active" /\ completeSprint(s, to))
          => LET d == sprints'[s]
                 bd == d.metrics.burndownData
                 mine == TasksOfSprint(tasks, s)
                 done == {t \in mine : tasks[t].status = "completed"}
             IN /\ d.status = "completed"
                /\ d.actualEndDate = NewDate
                /\ d.metrics.completedStoryPoints = SumOver(PointsOrZero(tasks), done)
                /\ d.metrics.totalStoryPoints = SumOver(PointsOrZero(tasks), mine)
                /\ d.metrics.velocity = d.metrics.completedStoryPoints
                /\ Len(bd) = Len(sprints[s].metrics.burndownData) + 1
                /\ SubSeq(bd, 1, Len(bd) - 1) = sprints[s].metrics.burndownData
                /\ bd[Len(bd)].remainingPoints =
                      d.metrics.totalStoryPoints - d.metrics.completedStoryPoints]_vars

\* a sprint completed over tasks of 3 and 5 points, the 3-point one completed:
\* velocity 3, end date set, the final burndown point after the start's
C10_Witness ==
    \E s \in DOMAIN sprints :
       /\ sprints[s].status = "completed"
       /\ sprints[s].actualEndDate # NoDate
       /\ sprints[s].metrics.totalStoryPoints = 8
       /\ sprints[s].metrics.velocity = 3
       /\ Len(sprints[s].metrics.burndownData) = 2
       /\ sprints[s].metrics.burndownData[2].remainingPoints = 5
       /\ sprints[s].metrics.burndownData[2].completedPoints = 3

\* C11 as stated: deleteSprint removes a sprint only when its status is
\* planning; in every other status the request is rejected and the sprint and
\* its tasks' sprint references are unchanged.
C11_DeleteOnlyPlanning ==
    [][\A s \in SprintIds :
          (s \in DOMAIN sprints /\ deleteSprint(s))
          => IF sprints[s].status = "planning"
             THEN s \notin DOMAIN sprints'
             ELSE sprints' = sprints /\ tasks' = tasks]_vars

\* C11, amended: deleteSprint removes a sprint exactly when its status is
\* planning or cancelled; for an active or completed sprint the request is
\* rejected and the sprint and its tasks' sprint references are unchanged.
C11_DeleteOnlyPlanningOrCancelled ==
    [][\A s \in SprintIds :
          (s \in DOMAIN sprints /\ deleteSprint(s))
          => IF sprints[s].status \in {"planning", "cancelled"}
             THEN s \notin DOMAIN sprints'
             ELSE sprints' = sprints /\ tasks' = tasks]_vars

\* the project's first sprint, cancelled, has been deleted, while the second
\* one, started and so protected, is still stored with its two tasks
C11_Witness ==
    /\ 1 \in KnownSprints /\ 1 \notin DOMAIN sprints
    /\ 2 \in DOMAIN sprints /\ sprints[2].status = "active"
    /\ Cardinality(TasksOfSprint(tasks, 2)) = 2

\* C12: right after a cancelSprint or a deleteSprint that succeeds on sprint s,
\* no task of any status refers to s.
C12_NoTaskLeftInSprint ==
    [][\A s \in SprintIds :
          (/\ s \in DOMAIN sprints
           /\ \/ cancelSprint(s) /\ sprints[s].status # "completed"
              \/ deleteSprint(s) /\ s \notin DOMAIN sprints')
          => TasksOfSprint(tasks', s) = {}]_vars

\* a sprint measured with two tasks, one of them completed, is cancelled and
\* both tasks are in the backlog
C12_Witness ==
    \E s \in DOMAIN sprints :
       /\ sprints[s].status = "cancelled"
       /\ sprints[s].metrics.totalTasks = 2
       /\ sprints[s].metrics.completedTasks = 1
       /\ \A t \in DOMAIN tasks : tasks[t].sprint = NoSprint

C14_CompletedAtFollowsStatus ==
    \A t \in DOMAIN tasks :
       tasks[t].completedAt # NoDate <=> tasks[t].status = "completed"

\* C15: a deleteProject request by an active member of the project's team
\* succeeds exactly when the actor is a team admin or holds project role owner;
\* any other actor is refused with Forbidden and the project and its data are
\* unchanged.
C15_DeleteProjectByAdminOrOwner ==
    [][\A p \in ProjectIds, actor \in Users :
          (/\ p \in DOMAIN projects
           /\ setTeamContext(1, actor) = PassedOn
           /\ deleteProject(1, p, actor))
          => IF \/ TeamMembershipOf(1, actor) = "admin"
                \/ ProjectMembershipOf(p, actor) = "owner"
             THEN p \notin DOMAIN projects' /\ res'.code = 200
             ELSE /\ res'.code = 403
                  /\ UNCHANGED <<projects, projectMembers, sprints, tasks>>]_vars

\* sprint s was stored and is changed or removed by the step
SprintTouched(s) ==
    s \in DOMAIN sprints /\ (s \notin DOMAIN sprints' \/ sprints'[s] # sprints[s])
\* task t was stored and is changed or removed by the step
TaskTouched(t) ==
    t \in DOMAIN tasks /\ (t \notin DOMAIN tasks' \/ tasks'[t] # tasks[t])

\* C16: a request to a sprint route in the context of team T and its project P
\* changes only sprints of team T and project P and tasks of project P.
C16_RequestStaysInItsProject ==
    [][\A teamId \in TeamIds, projectId \in ProjectIds, actor \in Users :
          (/\ projectId \in DOMAIN projects
           /\ projects[projectId].team = teamId
           /\ SprintRouteRequest(teamId, projectId, actor))
          => /\ \A s \in SprintIds :
                   SprintTouched(s)
                   => sprints[s].project = projectId /\ sprints[s].team = teamId
             /\ \A t \in 1..MaxTaskDocs :
                   TaskTouched(t) => tasks[t].project = projectId]_vars

\* C17: getScopedUserIds returns the ids of all active members of the team when
\* the team role is admin or manager, and otherwise exactly the requester's own
\* id plus the ids of the active members whose reportingManager is the requester.
C17_ScopeFollowsRole ==
    scopeResult.returned
    => scopeResult.ids =
         IF scopeCall.role \in {"admin", "Manager", "project_manager"}
         THEN ActiveMemberIds(scopeCall.teamId)
         ELSE {scopeCall.requester}
              \cup DirectReportIds(scopeCall.teamId, scopeCall.requester)

\* the actor has a membership of the team whose status is active
HasActiveMembership(teamId, actor) ==
    \E m \in MembershipsOf(teamMembers, teamId, actor) : teamMembers[m].status = "active"

\* C18: a team-scoped request for a missing team is answered NotFound, one for
\* a deactivated team or by an actor without an active membership is answered
\* Forbidden, and in each case nothing is written.
C18_TeamContextGuardsHandlers ==
    [][\A teamId \in RequestTeamIds, projectId \in ProjectIds, actor \in Users :
          TeamScopedRequest(teamId, projectId, actor)
          => IF teamId \notin DOMAIN teams
             THEN res'.code = 404 /\ UNCHANGED dbVars
             ELSE (~teams[teamId].isActive \/ ~HasActiveMembership(teamId, actor))
                  => res'.code = 403 /\ UNCHANGED dbVars]_vars

\* the owner of the deactivated team was refused while team 1 has a project
\* with a sprint and a task a handler could have changed, and user 2 is still
\* without an active membership of team 1
C18_Witness ==
    /\ res = Res(403, "This team is no longer active")
    /\ 1 \in DOMAIN projects
    /\ sprints # << >>
    /\ tasks # << >>
    /\ ~HasActiveMembership(1, 2)

\* C19: a sprint's burndownData never holds two points of the same calendar
\* day, whatever start, addBurndownDataPoint and complete did on that day.
C19_OnePointPerDay ==
    \A s \in DOMAIN sprints :
       LET bd == sprints[s].metrics.burndownData
       IN \A i, j \in 1..Len(bd) :
             i < j => setHoursMidnight(bd[i].date) # setHoursMidnight(bd[j].date)

\* the step changes, adds or removes a task that refers to sprint s before or
\* after it
TaskMutationTouches(s) ==
    \E t \in 1..MaxTaskDocs :
       \/ /\ t \in DOMAIN tasks /\ tasks[t].sprint = s
          /\ (t \notin DOMAIN tasks' \/ tasks'[t] # tasks[t])
       \/ /\ t \in DOMAIN tasks' /\ tasks'[t].sprint = s
          /\ (t \notin DOMAIN tasks \/ tasks'[t] # tasks[t])

\* C20: after a task mutation that touches a sprint which is in planning or
\* active, the sprint's four stored counters are the values recomputed from
\* the tasks that refer to it.
C20_MetricsFollowTasks ==
    [][\A s \in SprintIds :
          (/\ s \in DOMAIN sprints'
           /\ sprints'[s].status \in {"planning", "active"}
           /\ TaskMutationTouches(s))
          => LET m == sprints'[s].metrics
                 mine == TasksOfSprint(tasks', s)
                 done == {t \in mine : tasks'[t].status = "completed"}
             IN /\ m.totalTasks = Cardinality(mine)
                /\ m.completedTasks = Cardinality(done)
                /\ m.totalStoryPoints = SumOver(PointsOrZero(tasks'), mine)
                /\ m.completedStoryPoints = SumOver(PointsOrZero(tasks'), done)]_vars

\* the four counters updateMetrics writes
Counters(sp) ==
    <<sp.metrics.totalTasks, sp.metrics.completedTasks,
      sp.metrics.totalStoryPoints, sp.metrics.completedStoryPoints>>

\* C21: once a sprint is completed or cancelled, no later request, accepted or
\* rejected, changes its four stored counters.
C21_FinishedSprintIsFrozen ==
    [][\A s \in SprintIds :
          (/\ s \in DOMAIN sprints
           /\ sprints[s].status \in {"completed", "cancelled"}
           /\ s \in DOMAIN sprints')
          => Counters(sprints'[s]) = Counters(sprints[s])]_vars

\* the step is a request to one of the two task-assignment handlers
IsAddTasksToSprint == \E s \in SprintIds, ts \in SUBSET TaskIds : addTasksToSprint(s, ts)
IsRemoveTaskFromSprint == \E s \in SprintIds, t \in TaskIds : removeTaskFromSprint(s, t)

\* C22: addTasksToSprint and removeTaskFromSprint leave the task set of every
\* completed sprint as it was, and addTasksToSprint adds no task to a cancelled
\* sprint, whichever sprint the request names and wherever the named tasks are.
C22_NoStructuralChangeToFinishedSprint ==
    [][\A s \in DOMAIN sprints :
          /\ (sprints[s].status = "completed"
                 /\ (IsAddTasksToSprint \/ IsRemoveTaskFromSprint))
              => TasksOfSprint(tasks', s) = TasksOfSprint(tasks, s)
          /\ (sprints[s].status = "cancelled" /\ IsAddTasksToSprint)
              => TasksOfSprint(tasks', s) \subseteq TasksOfSprint(tasks, s)]_vars

\* two finished startSprint requests for different sprints of one project that
\* both read their sprint in planning and both ran the active-sprint check
\* before either wrote its status
RacingStarts(c, d) ==
    /\ c # d
    /\ startCalls[c].sprint # startCalls[d].sprint
    /\ startCalls[c].doc.project = startCalls[d].doc.project
    /\ \A x \in {c, d} : /\ startCalls[x].pc = "done"
                          /\ startCalls[x].readStatus = "planning"
                          /\ startCalls[x].checkedFirst

\* C23: two startSprint requests for different planning sprints of one project
\* that both make the active-sprint check before either writes its status both
\* answer 200, and both sprints end active.
C23_RacingStartsBothSucceed ==
    \A c, d \in DOMAIN startCalls :
       RacingStarts(c, d)
       => /\ startCalls[c].code = 200 /\ startCalls[d].code = 200
          /\ sprints[startCalls[c].sprint].status = "active"
          /\ sprints[startCalls[d].sprint].status = "active"

\* Two racing requests have answered, and the project has two active sprints.
C23_Witness ==
    /\ \E c, d \in DOMAIN startCalls : RacingStarts(c, d)
    /\ Cardinality(ActiveSprintsOf(1)) = 2

\* C24: a report's status changes only from draft to submitted (submit), and
\* from submitted to approved (approve) or rejected (reject); submit is refused
\* unless the report is a draft, approve and reject unless it is submitted; and
\* no request stores a new report as approved or moves a report to approved
\* other than approve of a submitted one.
C24_ReportFollowsWorkflow ==
    [][\A r \in ReportIds :
          /\ (r \in DOMAIN reports' /\ r \notin DOMAIN reports)
                => reports'[r].status # "approved"
          /\ (r \in DOMAIN reports' /\ r \in DOMAIN reports
              /\ reports'[r].status # reports[r].status)
                => \/ reports[r].status = "draft" /\ reports'[r].status = "submitted"
                   \/ /\ reports[r].status = "submitted"
                      /\ reports'[r].status \in {"approved", "rejected"}
          /\ (r \in DOMAIN reports /\ reports[r].status # "draft"
              /\ \E actor \in Users : submitReport(actor, r))
                => res'.code >= 400 /\ reports' = reports
          /\ (r \in DOMAIN reports /\ reports[r].status # "submitted"
              /\ ((\E actor \in Users : approveReport(actor, r))
                    \/ \E hasReason \in BOOLEAN : rejectReport(r, hasReason)))
                => res'.code >= 400 /\ reports' = reports]_vars

\* C25: the event bus holds the listener, and the process the keep-alive timer,
\* of exactly the connections that are open; a closed connection has neither.
C25_ListenersFollowConnections ==
    LET open == {c \in DOMAIN connections : connections[c] = "open"}
    IN listeners = open /\ timers = open

\* the step runs the job that ran last once more, on the members, reports and
\* tasks that run read
RunsAgain ==
    /\ lastRun.job # "none"
    /\ lastRun.teamMembers = teamMembers
    /\ lastRun.reports = reports
    /\ lastRun.tasks = tasks
    /\ lastRun' = lastRun

\* C26: a reminder job that runs a second time, with the reports and tasks as
\* its last run read them, creates no notification.
C26_ReminderJobsIdempotent ==
    [][RunsAgain => notifications' = notifications]_vars

\* C27: an active team member who is not a team admin and whose project role is
\* owner or manager gets through the permission check of the project's sprint
\* routes, because the matrix lists that role under the routes' action tag.
C27_ProjectManagersManageSprints ==
    \A p \in DOMAIN projects, actor \in Users :
       (/\ setTeamContext(projects[p].team, actor) = PassedOn
        /\ TeamMembershipOf(projects[p].team, actor) # "admin"
        /\ ProjectMembershipOf(p, actor) \in {"owner", "manager"})
       => /\ requireProjectPermission("MANAGE_SPRINTS", projects[p].team, p, actor) = PassedOn
          /\ Listed(PROJECT_PERMISSIONS, "MANAGE_SPRINTS", ProjectMembershipOf(p, actor))

\* C28: a project's currentSprint is set exactly when the project has an active
\* sprint, and then it is that sprint: it never names a sprint that is in
\* planning, completed, cancelled or deleted, and it is never empty while a
\* sprint of the project is active.
C28_CurrentSprintIsTheActiveSprint ==
    \A p \in DOMAIN projects :
       LET current == projects[p].currentSprint
       IN /\ current # NoSprint
             => /\ current \in DOMAIN sprints
                /\ sprints[current].project = p
                /\ sprints[current].status = "active"
          /\ ActiveSprintsOf(p) # {} => current \in ActiveSprintsOf(p)

\* C29: a task that refers to a sprint is a task of the sprint's project and of
\* the sprint's team.
C29_TaskAndSprintShareProject ==
    \A t \in DOMAIN tasks :
       LET s == tasks[t].sprint
       IN (s # NoSprint /\ s \in DOMAIN sprints)
          => /\ sprints[s].project = tasks[t].project
             /\ sprints[s].team = projects[tasks[t].project].team

\* C30: every project membership is held by a user who has an active membership
\* of the project's team.
C30_ProjectMembersAreTeamMembers ==
    \A m \in DOMAIN projectMembers :
       projectMembers[m].project \in DOMAIN projects
       => FindActiveTeamMember(projects[projectMembers[m].project].team,
                               projectMembers[m].user) # 0

====
